---- MODULE Spec2Model ----
(***************************************************************************)
(* Model of the circuit-animation engine of loading-utils:                 *)
(*   - perimeter geometry (getAnchorPosition, useCanvasState.ts)           *)
(*   - path lengths, buildCircuit and the frame-driven animator            *)
(*     (usePathAnimation.ts)                                               *)
(*                                                                         *)
(* Numbers.  The program computes with IEEE doubles; the model computes    *)
(* with integers: coordinates and lengths are whole pixels (square roots   *)
(* and quotients are floored), anchors are tenths (position * 10), times   *)
(* are milliseconds.  A value that is `T | null` in the source is a        *)
(* sequence of length at most one: Null is <<>>, Some(v) is <<v>>.         *)
(***************************************************************************)
EXTENDS Integers, Sequences, FiniteSets, TLC

VARIABLES
    shapes,             \* shapes(): the current shape list
    connections,        \* connections(): the current connection list
    \* ---- one activation of buildCircuit (locals of the function) ----
    pc,                 \* "idle" | "loop": position inside buildCircuit
    segments,           \* const segments: CircuitSegment[]
    usedConnections,    \* const usedConnections = new Set<string>()
    currentShapeId,     \* let currentShapeId
    currentExitAnchor,  \* let currentExitAnchor
    cumulativeDistance, \* let cumulativeDistance
    results,            \* the values returned by the completed calls, in order
    lastPass,           \* history: what the last step of the walk did
    \* ---- usePathAnimation closure state ----
    isPlaying,          \* isPlaying.value
    animationDots,      \* animationDots.value
    snakeSegment,       \* snakeSegment.value
    animationFrameId,   \* let animationFrameId: number | null
    startTime,          \* let startTime: number | null
    \* ---- environment of the animator ----
    pendingFrames,      \* requestAnimationFrame ids requested, not yet run or cancelled
    nextFrameId,        \* the id the next requestAnimationFrame call returns
    now,                \* performance.now()
    config,             \* config(): the AnimationConfig snapshot
    watchedEnabled,     \* the value of config().enabled the watcher saw last
    lifecycle,          \* "setup" | "mounted" | "unmounted": the owning component
    watcherDirty,       \* the watcher's job is queued (a dependency was written)
    lastOp,             \* history: the last operation and the state it found
    \* ---- useCanvasState refs (shapes and connections are above) ----
    currentTool,        \* currentTool.value
    selectedShapeId,    \* selectedShapeId.value ("null" for null)
    selectedConnectionId, \* selectedConnectionId.value ("null" for null)
    pendingLineStart,   \* pendingLineStart.value: Null or Some([shapeId, anchor])
    created,            \* how many shapes and connections have been created
    lastEdit,           \* history: the last editor operation and its arguments
    \* ---- one evaluation of a function of the engine ----
    call,               \* the function and the arguments it is called with
    ret                 \* Null until the call has returned, then Some(value)

vars == <<shapes, connections, pc, segments, usedConnections, currentShapeId,
          currentExitAnchor, cumulativeDistance, results, lastPass,
          isPlaying, animationDots, snakeSegment, animationFrameId, startTime,
          pendingFrames, nextFrameId, now, config, watchedEnabled, lifecycle,
          watcherDirty, lastOp, currentTool, selectedShapeId,
          selectedConnectionId, pendingLineStart, created, lastEdit, call, ret>>

sceneVars == <<shapes, connections>>

buildVars == <<pc, segments, usedConnections, currentShapeId,
               currentExitAnchor, cumulativeDistance, results, lastPass>>

animVars == <<isPlaying, animationDots, snakeSegment, animationFrameId,
              startTime, pendingFrames, nextFrameId, now, config,
              watchedEnabled, lifecycle, watcherDirty, lastOp>>

canvasVars == <<currentTool, selectedShapeId, selectedConnectionId,
                pendingLineStart, created, lastEdit>>

evalVars == <<call, ret>>

----------------------------------------------------------------------------
(* Optional values and small helpers                                       *)

Null == <<>>

Some(v) == <<v>>

Val(o) == o[1]

\* JavaScript `v || d` on an optional number: undefined and 0 both give d.
OrDefault(v, d) == IF v = 0 THEN d ELSE v

RECURSIVE SqrtSearch(_, _, _)
SqrtSearch(n, lo, hi) ==
    IF lo >= hi THEN lo
    ELSE LET mid == (lo + hi + 1) \div 2
         IN  IF mid * mid <= n THEN SqrtSearch(n, mid, hi)
                               ELSE SqrtSearch(n, lo, mid - 1)

\* Math.sqrt on a non-negative number, floored to whole pixels.
Sqrt(n) == SqrtSearch(n, 0, 40000)

\* Array.prototype.find on the shape list: Null when no shape has the id.
FindShape(shapeList, id) ==
    LET idx == {i \in 1..Len(shapeList) : shapeList[i].id = id}
    IN  IF idx = {} THEN Null
        ELSE Some(shapeList[CHOOSE i \in idx : \A j \in idx : i <= j])

----------------------------------------------------------------------------
(* Perimeter geometry                                                      *)

getShapeCenter(shape) ==
    IF shape.type = "circle" THEN [x |-> shape.x, y |-> shape.y]
    ELSE LET width  == OrDefault(shape.width, 40)
             height == OrDefault(shape.height, 40)
         IN  [x |-> shape.x + width \div 2, y |-> shape.y + height \div 2]

\* 1000 * sin(2*pi*k/100) for k = 0..25
SinQuarter ==
    <<0, 63, 125, 187, 249, 309, 368, 426, 482, 536, 588, 637, 685, 729, 771,
      809, 844, 876, 905, 930, 951, 969, 982, 992, 998, 1000>>

\* 1000 * sin(2*pi*r/100) for r in 0..99, by the symmetries of the sine
SinOfRemainder(r) ==
    IF r <= 25 THEN SinQuarter[r + 1]
    ELSE IF r <= 50 THEN SinQuarter[51 - r]
    ELSE IF r <= 75 THEN 0 - SinQuarter[r - 49]
    ELSE 0 - SinQuarter[101 - r]

\* 1000 * sin(2*pi*h/100) and 1000 * cos(2*pi*h/100) for any integer h:
\* Math.sin and Math.cos are periodic.
SinHundredths(h) == SinOfRemainder(h % 100)

CosHundredths(h) == SinOfRemainder((h + 25) % 100)

\* The circle branch: angle = position*2pi - pi/2, so cos(angle) is
\* sin(2pi*position) and sin(angle) is -cos(2pi*position).
CirclePoint(shape, radius, h) ==
    [x |-> shape.x + (radius * SinHundredths(h)) \div 1000,
     y |-> shape.y - (radius * CosHundredths(h)) \div 1000]

\* The square branch, distance being position * perimeter.
SquarePoint(shape, width, height, distance) ==
    IF distance < width THEN
        [x |-> shape.x + distance, y |-> shape.y]
    ELSE IF distance < width + height THEN
        [x |-> shape.x + width, y |-> shape.y + (distance - width)]
    ELSE IF distance < width * 2 + height THEN
        [x |-> shape.x + width - (distance - width - height),
         y |-> shape.y + height]
    ELSE
        [x |-> shape.x,
         y |-> shape.y + height - (distance - width * 2 - height)]

\* from + (to - from) * t for t = num/den
Along(from, to, num, den) ==
    [x |-> from.x + ((to.x - from.x) * num) \div den,
     y |-> from.y + ((to.y - from.y) * num) \div den]

\* The triangle branch past its edge lengths, distance being
\* position * perimeter.
TrianglePoint(bottomLeft, topCenter, bottomRight, leftEdge, bottomEdge, rightEdge, distance) ==
    IF distance < leftEdge THEN
        Along(bottomLeft, topCenter, distance, leftEdge)
    ELSE IF distance < leftEdge + bottomEdge THEN
        Along(bottomLeft, bottomRight, distance - leftEdge, bottomEdge)
    ELSE
        Along(bottomRight, topCenter, distance - leftEdge - bottomEdge, rightEdge)

\* leftEdge and rightEdge of the triangle branch
SlantEdge(width, height) ==
    Sqrt((width \div 2) * (width \div 2) + height * height)

\* The triangle branch, h being the position in hundredths.
TriangleAt(shape, width, height, edge, h) ==
    TrianglePoint([x |-> shape.x, y |-> shape.y + height],
                  [x |-> shape.x + width \div 2, y |-> shape.y],
                  [x |-> shape.x + width, y |-> shape.y + height],
                  edge, width, edge,
                  (h * (edge + edge + width)) \div 100)

\* getAnchorPosition(shape, {position}) for a position given in hundredths
\* (h = position * 100); the position is used as it is given.
getAnchorPositionAt(shape, h) ==
    IF shape.type = "circle" THEN
        CirclePoint(shape, OrDefault(shape.radius, 20), h)
    ELSE IF shape.type = "square" THEN
        SquarePoint(shape, OrDefault(shape.width, 40), OrDefault(shape.height, 40),
                    (h * ((OrDefault(shape.width, 40) + OrDefault(shape.height, 40)) * 2)) \div 100)
    ELSE IF shape.type = "triangle" THEN
        TriangleAt(shape, OrDefault(shape.width, 40), OrDefault(shape.height, 40),
                   SlantEdge(OrDefault(shape.width, 40), OrDefault(shape.height, 40)), h)
    ELSE
        [x |-> shape.x + OrDefault(shape.width, 40) \div 2,
         y |-> shape.y + OrDefault(shape.height, 40) \div 2]

\* getAnchorPosition(shape, {position}): position is given in tenths.
getAnchorPosition(shape, position) ==
    getAnchorPositionAt(shape, position * 10)

\* Math.sqrt(dx * dx + dy * dy) on the difference of two points
Distance(prevPoint, point) ==
    Sqrt((point.x - prevPoint.x) * (point.x - prevPoint.x)
         + (point.y - prevPoint.y) * (point.y - prevPoint.y))

\* dx * dx + dy * dy.  findNearestAnchor compares the square roots of such
\* sums; the square root is increasing, so the sums compare the same way.
SquaredDistance(anchorPos, point) ==
    (anchorPos.x - point.x) * (anchorPos.x - point.x)
    + (anchorPos.y - point.y) * (anchorPos.y - point.y)

\* `let minDistance = Infinity`
Infinity == 1000000000

RECURSIVE NearestFrom(_, _, _, _, _)
RECURSIVE NearestStep(_, _, _, _, _, _)
\* The for-loop of findNearestAnchor from index i on.
NearestFrom(shape, point, i, minDistance, bestAnchor) ==
    IF i >= 10 THEN bestAnchor
    ELSE NearestStep(shape, point, i, minDistance, bestAnchor,
                     SquaredDistance(getAnchorPosition(shape, i), point))

\* An iteration that also replaces the best anchor on an equal distance.
NearestStepLast(shape, point, i, minDistance, bestAnchor, distance) ==
    IF distance <= minDistance
    THEN NearestFrom(shape, point, i + 1, distance, [position |-> i])
    ELSE NearestFrom(shape, point, i + 1, minDistance, bestAnchor)

\* One iteration: `if (distance < minDistance) {...}`
NearestStep(shape, point, i, minDistance, bestAnchor, distance) ==
    IF distance < minDistance
    THEN NearestFrom(shape, point, i + 1, distance, [position |-> i])
    ELSE NearestFrom(shape, point, i + 1, minDistance, bestAnchor)

\* findNearestAnchor: the anchor (position in tenths) whose point is
\* closest to the given point.
findNearestAnchor(shape, point) ==
    NearestFrom(shape, point, 0, Infinity, [position |-> 0])

getPointOnShapePerimeter(shape, anchorPosition) ==
    getAnchorPosition(shape, anchorPosition)

calculateTransitionLength(shape, fromAnchor, toAnchor) ==
    Distance(getPointOnShapePerimeter(shape, fromAnchor),
             getPointOnShapePerimeter(shape, toAnchor))

----------------------------------------------------------------------------
(* Path segment evaluator                                                  *)

\* Endpoint of a connection on a resolved shape: the anchor point when the
\* connection has an anchor, the shape centre otherwise.
EndPoint(shape, anchor) ==
    IF anchor # Null THEN getAnchorPosition(shape, Val(anchor).position)
                     ELSE getShapeCenter(shape)

\* getPointOnCurve at t = num/den.
getPointOnCurve(from, control, to, num, den) ==
    LET mt == den - num
    IN  [x |-> (mt * mt * from.x + 2 * mt * num * control.x + num * num * to.x) \div (den * den),
         y |-> (mt * mt * from.y + 2 * mt * num * control.y + num * num * to.y) \div (den * den)]

RECURSIVE CurveLength(_, _, _, _, _)
RECURSIVE CurveStep(_, _, _, _, _, _)
\* the sampling loop of calculatePathLength: samples i..20, prevPoint given
CurveLength(from, control, to, i, prevPoint) ==
    IF i > 20 THEN 0
    ELSE CurveStep(from, control, to, i, prevPoint,
                   getPointOnCurve(from, control, to, i, 20))

\* one iteration of the loop, point being the i-th sample
CurveStep(from, control, to, i, prevPoint, point) ==
    Distance(prevPoint, point) + CurveLength(from, control, to, i + 1, point)

\* PathLength that adds the two coordinate differences of a straight line.
PathLengthNoRoot(from, to, curveOffset) ==
    IF curveOffset = Null THEN
        (IF to.x >= from.x THEN to.x - from.x ELSE from.x - to.x)
        + (IF to.y >= from.y THEN to.y - from.y ELSE from.y - to.y)
    ELSE
        CurveLength(from,
                    [x |-> (from.x + to.x) \div 2 + Val(curveOffset).x,
                     y |-> (from.y + to.y) \div 2 + Val(curveOffset).y],
                    to, 1, from)

\* The length of the path between the resolved end points from and to.
PathLength(from, to, curveOffset) ==
    IF curveOffset = Null THEN
        Sqrt((to.x - from.x) * (to.x - from.x) + (to.y - from.y) * (to.y - from.y))
    ELSE
        CurveLength(from,
                    [x |-> (from.x + to.x) \div 2 + Val(curveOffset).x,
                     y |-> (from.y + to.y) \div 2 + Val(curveOffset).y],
                    to, 1, from)

\* Both shapes of a connection, each Null when the shape list has no such id.
EndShapes(connection, shapeList) ==
    [from |-> FindShape(shapeList, connection.fromShapeId),
     to   |-> FindShape(shapeList, connection.toShapeId)]

\* calculatePathLength with a default length for unresolvable end points.
PathLengthOnDefault(connection, ends) ==
    IF ends.from = Null \/ ends.to = Null THEN 100
    ELSE PathLength(EndPoint(Val(ends.from), connection.fromAnchor),
                    EndPoint(Val(ends.to), connection.toAnchor),
                    connection.curveOffset)

PathLengthOn(connection, ends) ==
    IF ends.from = Null \/ ends.to = Null THEN 0
    ELSE PathLength(EndPoint(Val(ends.from), connection.fromAnchor),
                    EndPoint(Val(ends.to), connection.toAnchor),
                    connection.curveOffset)

calculatePathLength(connection, shapeList) ==
    PathLengthOn(connection, EndShapes(connection, shapeList))

----------------------------------------------------------------------------
(* Circuit builder                                                         *)

getExitAnchor(connection, reversed) ==
    IF reversed THEN
        [shapeId |-> connection.fromShapeId,
         anchor  |-> IF connection.fromAnchor # Null
                     THEN Some(Val(connection.fromAnchor).position) ELSE Null]
    ELSE
        [shapeId |-> connection.toShapeId,
         anchor  |-> IF connection.toAnchor # Null
                     THEN Some(Val(connection.toAnchor).position) ELSE Null]

getEntryAnchor(connection, reversed) ==
    IF reversed THEN
        [shapeId |-> connection.toShapeId,
         anchor  |-> IF connection.toAnchor # Null
                     THEN Some(Val(connection.toAnchor).position) ELSE Null]
    ELSE
        [shapeId |-> connection.fromShapeId,
         anchor  |-> IF connection.fromAnchor # Null
                     THEN Some(Val(connection.fromAnchor).position) ELSE Null]

\* ConnectionSegment with the length left out of endDistance.
ConnectionSegmentNoLength(connection, reversed, start, length) ==
    [type |-> "connection", connection |-> Some(connection), reversed |-> reversed,
     shape |-> Null, fromAnchor |-> Null, toAnchor |-> Null,
     startDistance |-> start, endDistance |-> start]

\* A CircuitSegment of type 'connection'.  The fields a segment of this type
\* leaves undefined are Null.
ConnectionSegment(connection, reversed, start, length) ==
    [type |-> "connection", connection |-> Some(connection), reversed |-> reversed,
     shape |-> Null, fromAnchor |-> Null, toAnchor |-> Null,
     startDistance |-> start, endDistance |-> start + length]

\* A CircuitSegment of type 'transition' (reversed is undefined there, which
\* every reader takes as false).
TransitionSegment(shape, fromAnchor, toAnchor, start, length) ==
    [type |-> "transition", connection |-> Null, reversed |-> FALSE,
     shape |-> Some(shape), fromAnchor |-> Some(fromAnchor), toAnchor |-> Some(toAnchor),
     startDistance |-> start, endDistance |-> start + length]

\* SingleCircuit that marks its only segment as reversed.
SingleCircuitReversed(connectionsList, shapeList) ==
    LET connection == connectionsList[1]
        length     == calculatePathLength(connection, shapeList)
    IN  <<ConnectionSegment(connection, TRUE, 0, length)>>

\* buildCircuit on a list of length 1.
SingleCircuit(connectionsList, shapeList) ==
    LET connection == connectionsList[1]
        length     == calculatePathLength(connection, shapeList)
    IN  <<ConnectionSegment(connection, FALSE, 0, length)>>

\* WalkStart with the used set hoisted out of the function: the ids of the
\* previous activation are still in it.
WalkStartKeepsUsed(connectionsList, shapeList) ==
    LET firstConnection == connectionsList[1]
        firstLength     == calculatePathLength(firstConnection, shapeList)
        firstExit       == getExitAnchor(firstConnection, FALSE)
    IN  [segments           |-> <<ConnectionSegment(firstConnection, FALSE, 0, firstLength)>>,
         usedConnections    |-> usedConnections \cup {firstConnection.id},
         currentShapeId     |-> firstExit.shapeId,
         currentExitAnchor  |-> firstExit.anchor,
         cumulativeDistance |-> 0 + firstLength]

\* The locals of buildCircuit after "Start with the first connection".
WalkStart(connectionsList, shapeList) ==
    LET firstConnection == connectionsList[1]
        firstLength     == calculatePathLength(firstConnection, shapeList)
        firstExit       == getExitAnchor(firstConnection, FALSE)
    IN  [segments           |-> <<ConnectionSegment(firstConnection, FALSE, 0, firstLength)>>,
         usedConnections    |-> {firstConnection.id},
         currentShapeId     |-> firstExit.shapeId,
         currentExitAnchor  |-> firstExit.anchor,
         cumulativeDistance |-> 0 + firstLength]

\* FindContinuing that matches on fromShapeId only.
FindContinuingForward(connectionsList, w) ==
    LET idx == {i \in 1..Len(connectionsList) :
                   /\ connectionsList[i].id \notin w.usedConnections
                   /\ connectionsList[i].fromShapeId = w.currentShapeId}
    IN  IF idx = {} THEN 0 ELSE CHOOSE i \in idx : \A j \in idx : i <= j

\* FindContinuing taking the last unused connection that touches
\* currentShapeId instead of the first.
FindContinuingLast(connectionsList, w) ==
    LET idx == {i \in 1..Len(connectionsList) :
                   /\ connectionsList[i].id \notin w.usedConnections
                   /\ \/ connectionsList[i].fromShapeId = w.currentShapeId
                      \/ connectionsList[i].toShapeId = w.currentShapeId}
    IN  IF idx = {} THEN 0 ELSE CHOOSE i \in idx : \A j \in idx : i >= j

\* Index of the connection the first for-loop stops at: the first one, in list
\* order, that is unused and touches currentShapeId; 0 when there is none.
FindContinuing(connectionsList, w) ==
    LET idx == {i \in 1..Len(connectionsList) :
                   /\ connectionsList[i].id \notin w.usedConnections
                   /\ \/ connectionsList[i].fromShapeId = w.currentShapeId
                      \/ connectionsList[i].toShapeId = w.currentShapeId}
    IN  IF idx = {} THEN 0 ELSE CHOOSE i \in idx : \A j \in idx : i <= j

\* nextReversed: false when the connection starts at the current shape, true
\* when it only ends there.
NextReversed(connection, w) ==
    IF connection.fromShapeId = w.currentShapeId THEN FALSE ELSE TRUE

\* NeedsTransition testing the anchors for truthiness instead of null:
\* anchor 0 then counts as missing.
NeedsTransitionTruthy(exitAnchor, entryAnchor) ==
    /\ exitAnchor # Null /\ Val(exitAnchor) # 0
    /\ entryAnchor # Null /\ Val(entryAnchor) # 0
    /\ exitAnchor # entryAnchor

\* "Check if we need a transition segment"
NeedsTransition(exitAnchor, entryAnchor) ==
    exitAnchor # Null /\ entryAnchor # Null /\ exitAnchor # entryAnchor

\* Body of `if (nextConnection)`: optional transition, then the connection.
ContinueWith(nextConnection, w, shapeList) ==
    LET nextReversed == NextReversed(nextConnection, w)
        entryAnchor  == getEntryAnchor(nextConnection, nextReversed)
        shape        == FindShape(shapeList, w.currentShapeId)
        withTransition ==
            NeedsTransition(w.currentExitAnchor, entryAnchor.anchor) /\ shape # Null
        transitionLength ==
            IF withTransition
            THEN calculateTransitionLength(Val(shape), Val(w.currentExitAnchor),
                                           Val(entryAnchor.anchor))
            ELSE 0
        segs1 ==
            IF withTransition
            THEN Append(w.segments,
                        TransitionSegment(Val(shape), Val(w.currentExitAnchor),
                                          Val(entryAnchor.anchor),
                                          w.cumulativeDistance, transitionLength))
            ELSE w.segments
        cum1       == w.cumulativeDistance + transitionLength
        length     == calculatePathLength(nextConnection, shapeList)
        exitAnchor == getExitAnchor(nextConnection, nextReversed)
    IN  [segments           |-> Append(segs1, ConnectionSegment(nextConnection, nextReversed, cum1, length)),
         usedConnections    |-> w.usedConnections \cup {nextConnection.id},
         currentShapeId     |-> exitAnchor.shapeId,
         currentExitAnchor  |-> exitAnchor.anchor,
         cumulativeDistance |-> cum1 + length]

\* FindFresh taking the last unused connection instead of the first.
FindFreshLast(connectionsList, w) ==
    LET idx == {i \in 1..Len(connectionsList) :
                   connectionsList[i].id \notin w.usedConnections}
    IN  IF idx = {} THEN 0 ELSE CHOOSE i \in idx : \A j \in idx : i >= j

\* Index of the connection the second for-loop stops at: the first unused one.
FindFresh(connectionsList, w) ==
    LET idx == {i \in 1..Len(connectionsList) :
                   connectionsList[i].id \notin w.usedConnections}
    IN  IF idx = {} THEN 0 ELSE CHOOSE i \in idx : \A j \in idx : i <= j

\* FreshWith without `usedConnections.add(connection.id)`.
FreshWithKeepsUsed(connection, w, shapeList) ==
    [segments           |-> Append(w.segments,
                                   ConnectionSegment(connection, FALSE, w.cumulativeDistance,
                                                     calculatePathLength(connection, shapeList))),
     usedConnections    |-> w.usedConnections,
     currentShapeId     |-> getExitAnchor(connection, FALSE).shapeId,
     currentExitAnchor  |-> getExitAnchor(connection, FALSE).anchor,
     cumulativeDistance |-> w.cumulativeDistance
                            + calculatePathLength(connection, shapeList)]

\* "Start a new path segment (doesn't connect, but we'll animate through it)"
FreshWith(connection, w, shapeList) ==
    LET length     == calculatePathLength(connection, shapeList)
        exitAnchor == getExitAnchor(connection, FALSE)
    IN  [segments           |-> Append(w.segments,
                                       ConnectionSegment(connection, FALSE,
                                                         w.cumulativeDistance, length)),
         usedConnections    |-> w.usedConnections \cup {connection.id},
         currentShapeId     |-> exitAnchor.shapeId,
         currentExitAnchor  |-> exitAnchor.anchor,
         cumulativeDistance |-> w.cumulativeDistance + length]

\* LoopGuard that stops one connection early.
LoopGuardOffByOne(connectionsList, w) ==
    Cardinality(w.usedConnections) < Len(connectionsList) - 1

\* The guard of the while loop.
LoopGuard(connectionsList, w) ==
    Cardinality(w.usedConnections) < Len(connectionsList)

RECURSIVE WalkLoop(_, _, _)
\* The while loop, run to its end: the returned segment list.
WalkLoop(connectionsList, w, shapeList) ==
    IF ~LoopGuard(connectionsList, w) THEN w.segments
    ELSE LET c == FindContinuing(connectionsList, w)
             f == FindFresh(connectionsList, w)
         IN  IF c # 0 THEN
                 WalkLoop(connectionsList, ContinueWith(connectionsList[c], w, shapeList), shapeList)
             ELSE IF f # 0 THEN
                 WalkLoop(connectionsList, FreshWith(connectionsList[f], w, shapeList), shapeList)
             ELSE w.segments

\* buildCircuit as one function call (the animator's tick calls it this way).
buildCircuit(connectionsList, shapeList) ==
    IF Len(connectionsList) = 0 THEN <<>>
    ELSE IF Len(connectionsList) = 1 THEN SingleCircuit(connectionsList, shapeList)
    ELSE WalkLoop(connectionsList, WalkStart(connectionsList, shapeList), shapeList)

----------------------------------------------------------------------------
(* Inputs: the shapes and connections the model is run on                  *)

\* Largest connection list handed to buildCircuit.
MaxConns == 3

\* Number of buildCircuit calls made on one input.
MaxCalls == 2

\* Shapes as addShape creates them: a circle has only a radius, a square has
\* width and height, a triangle has neither (0 stands for undefined).
Shape(id, type, x, y) ==
    [id |-> id, type |-> type, x |-> x, y |-> y,
     width  |-> IF type = "square" THEN 40 ELSE 0,
     height |-> IF type = "square" THEN 40 ELSE 0,
     radius |-> IF type = "circle" THEN 20 ELSE 0,
     fill   |-> "#60a5fa"]

AllShapes ==
    << Shape("A", "circle", 0, 0), Shape("B", "square", 100, 0),
       Shape("C", "triangle", 200, 100), Shape("D", "circle", 0, 200) >>

\* The shape lists of the model: every shape present, or shape B missing
\* (connections that still name it are dangling).
ShapeLists == {AllShapes, SelectSeq(AllShapes, LAMBDA s : s.id # "B")}

Conn(id, from, fromAnchor, to, toAnchor, curveOffset) ==
    [id |-> id, fromShapeId |-> from, toShapeId |-> to,
     fromAnchor |-> Some([position |-> fromAnchor]),
     toAnchor |-> Some([position |-> toAnchor]),
     stroke |-> "#60a5fa",
     curveOffset |-> curveOffset]

Curve == Some([x |-> 0, y |-> 30])

\* The connections lists are drawn from: chains through shared shapes with
\* equal and with different anchors (anchor 0 included), connections that can
\* only be entered backwards, a self-loop, a zero-length self-loop, curves.
ConnectionPool ==
    { Conn("c1",  "A", 0, "B", 2, Null),
      Conn("c2",  "B", 6, "C", 0, Null),
      Conn("c3",  "B", 2, "C", 5, Null),
      Conn("c4",  "C", 0, "B", 6, Null),
      Conn("c5",  "C", 5, "D", 0, Null),
      Conn("c6",  "A", 3, "C", 0, Curve),
      Conn("c7",  "A", 0, "A", 5, Null),
      Conn("c8",  "D", 0, "A", 0, Null),
      Conn("c9",  "B", 2, "B", 2, Null),
      Conn("c10", "C", 0, "A", 0, Curve),
      Conn("c11", "D", 7, "C", 5, Null),
      Conn("c12", "B", 0, "A", 3, Null) }

ConnectionLists == UNION {[1..n -> ConnectionPool] : n \in 0..MaxConns}

----------------------------------------------------------------------------
(* buildCircuit, one step at a time                                        *)

\* The locals of the running activation as one record.
Walk ==
    [segments           |-> segments,
     usedConnections    |-> usedConnections,
     currentShapeId     |-> currentShapeId,
     currentExitAnchor  |-> currentExitAnchor,
     cumulativeDistance |-> cumulativeDistance]

SetWalk(w) ==
    /\ segments' = w.segments
    /\ usedConnections' = w.usedConnections
    /\ currentShapeId' = w.currentShapeId
    /\ currentExitAnchor' = w.currentExitAnchor
    /\ cumulativeDistance' = w.cumulativeDistance

\* What a step found when it began (history only).
Pass(kind, index) ==
    [kind |-> kind, index |-> index, prevLen |-> Len(segments),
     prevShapeId |-> currentShapeId, prevExitAnchor |-> currentExitAnchor,
     prevUsed |-> usedConnections]

NoPass ==
    [kind |-> "none", index |-> 0, prevLen |-> 0, prevShapeId |-> "null",
     prevExitAnchor |-> Null, prevUsed |-> {}]

BuildInit ==
    /\ pc = "idle"
    /\ segments = <<>>
    /\ usedConnections = {}
    /\ currentShapeId = "null"
    /\ currentExitAnchor = Null
    /\ cumulativeDistance = 0
    /\ results = <<>>
    /\ lastPass = NoPass

\* buildCircuit(connections()) is entered: the two early returns, or the
\* set-up of the walk with the first connection.
CallBuildCircuit ==
    /\ pc = "idle"
    /\ Len(results) < MaxCalls
    /\ IF Len(connections) = 0 THEN
           /\ results' = Append(results, <<>>)
           /\ lastPass' = [NoPass EXCEPT !.kind = "empty"]
           /\ UNCHANGED <<pc, segments, usedConnections, currentShapeId,
                          currentExitAnchor, cumulativeDistance>>
       ELSE IF Len(connections) = 1 THEN
           /\ results' = Append(results, SingleCircuit(connections, shapes))
           /\ lastPass' = [NoPass EXCEPT !.kind = "single"]
           /\ UNCHANGED <<pc, segments, usedConnections, currentShapeId,
                          currentExitAnchor, cumulativeDistance>>
       ELSE
           /\ SetWalk(WalkStart(connections, shapes))
           /\ pc' = "loop"
           /\ lastPass' = [NoPass EXCEPT !.kind = "first", !.index = 1]
           /\ UNCHANGED results
    /\ UNCHANGED <<sceneVars, animVars, canvasVars, evalVars>>

\* One pass of the while loop in which the first for-loop finds a connection.
PassContinue ==
    /\ pc = "loop"
    /\ LoopGuard(connections, Walk)
    /\ LET c == FindContinuing(connections, Walk)
       IN  /\ c # 0
           /\ SetWalk(ContinueWith(connections[c], Walk, shapes))
           /\ lastPass' = Pass("continue", c)
    /\ UNCHANGED <<pc, results, sceneVars, animVars, canvasVars, evalVars>>

\* One pass in which the first for-loop finds nothing and the second for-loop
\* starts a new path.
PassFresh ==
    /\ pc = "loop"
    /\ LoopGuard(connections, Walk)
    /\ FindContinuing(connections, Walk) = 0
    /\ LET f == FindFresh(connections, Walk)
       IN  /\ f # 0
           /\ SetWalk(FreshWith(connections[f], Walk, shapes))
           /\ lastPass' = Pass("fresh", f)
    /\ UNCHANGED <<pc, results, sceneVars, animVars, canvasVars, evalVars>>

\* One pass in which neither for-loop finds a connection: `break`, then return.
PassBreak ==
    /\ pc = "loop"
    /\ LoopGuard(connections, Walk)
    /\ FindContinuing(connections, Walk) = 0
    /\ FindFresh(connections, Walk) = 0
    /\ pc' = "idle"
    /\ results' = Append(results, segments)
    /\ lastPass' = Pass("break", 0)
    /\ UNCHANGED <<segments, usedConnections, currentShapeId, currentExitAnchor,
                   cumulativeDistance, sceneVars, animVars, canvasVars, evalVars>>

\* The loop guard fails: return segments.
ReturnCircuit ==
    /\ pc = "loop"
    /\ ~LoopGuard(connections, Walk)
    /\ pc' = "idle"
    /\ results' = Append(results, segments)
    /\ lastPass' = Pass("return", 0)
    /\ UNCHANGED <<segments, usedConnections, currentShapeId, currentExitAnchor,
                   cumulativeDistance, sceneVars, animVars, canvasVars, evalVars>>

----------------------------------------------------------------------------
(* Points on the circuit                                                   *)

\* JavaScript a % b for b > 0: the remainder has the sign of the dividend.
JsRem(a, b) == IF a >= 0 THEN a % b ELSE 0 - ((0 - a) % b)

\* Normalize that takes the remainder only, keeping the dividend's sign.
NormalizeRemainderOnly(distance, totalLength) ==
    JsRem(distance, totalLength)

\* ((distance % totalLength) + totalLength) % totalLength
Normalize(distance, totalLength) ==
    JsRem(JsRem(distance, totalLength) + totalLength, totalLength)

getPointOnStraightLine(from, to, num, den) ==
    [x |-> from.x + ((to.x - from.x) * num) \div den,
     y |-> from.y + ((to.y - from.y) * num) \div den]

\* The point at t = actualT/den between the resolved end points.
PathPoint(from, to, curveOffset, actualT, den) ==
    IF curveOffset = Null THEN
        getPointOnStraightLine(from, to, actualT, den)
    ELSE
        getPointOnCurve(from,
                        [x |-> (from.x + to.x) \div 2 + Val(curveOffset).x,
                         y |-> (from.y + to.y) \div 2 + Val(curveOffset).y],
                        to, actualT, den)

\* PathPointOn that takes t as given, whatever the direction.
PathPointOnForward(connection, ends, num, den, reversed) ==
    IF ends.from = Null \/ ends.to = Null THEN Null
    ELSE Some(PathPoint(EndPoint(Val(ends.from), connection.fromAnchor),
                        EndPoint(Val(ends.to), connection.toAnchor),
                        connection.curveOffset, num, den))

PathPointOn(connection, ends, num, den, reversed) ==
    IF ends.from = Null \/ ends.to = Null THEN Null
    ELSE Some(PathPoint(EndPoint(Val(ends.from), connection.fromAnchor),
                        EndPoint(Val(ends.to), connection.toAnchor),
                        connection.curveOffset,
                        IF reversed THEN den - num ELSE num, den))

\* getPointOnPath at t = num/den: Null when a shape is missing.
getPointOnPath(connection, shapeList, num, den, reversed) ==
    PathPointOn(connection, EndShapes(connection, shapeList), num, den, reversed)

\* easeInOutCubic on hundredths: t and the result are in 0..100.
easeInOutCubic(t) ==
    IF t < 50 THEN (4 * t * t * t) \div 10000
    ELSE 100 - (((200 - 2 * t) * (200 - 2 * t) * (200 - 2 * t)) \div 2) \div 10000

\* circuit[circuit.length - 1]?.endDistance || 0
TotalLength(circuit) ==
    IF Len(circuit) = 0 THEN 0 ELSE circuit[Len(circuit)].endDistance

\* SegmentIndexAt that takes a segment's end distance as inside it.
SegmentIndexAtClosed(circuit, d) ==
    LET idx == {i \in 1..Len(circuit) :
                   d >= circuit[i].startDistance /\ d <= circuit[i].endDistance}
    IN  IF idx = {} THEN Len(circuit) ELSE CHOOSE i \in idx : \A j \in idx : i <= j

\* circuit.find(s => d >= s.startDistance && d < s.endDistance) || last:
\* the index of the segment used for distance d.
SegmentIndexAt(circuit, d) ==
    LET idx == {i \in 1..Len(circuit) :
                   d >= circuit[i].startDistance /\ d < circuit[i].endDistance}
    IN  IF idx = {} THEN Len(circuit) ELSE CHOOSE i \in idx : \A j \in idx : i <= j

\* The clamped progress within a segment at distance d, as the fraction
\* num/den: (d - startDistance) / segmentLength, or 0 for an empty segment.
SegmentProgress(segment, d) ==
    LET segmentLength == segment.endDistance - segment.startDistance
        den           == IF segmentLength > 0 THEN segmentLength ELSE 1
        raw           == IF segmentLength > 0 THEN d - segment.startDistance ELSE 0
    IN  [num |-> IF raw < 0 THEN 0 ELSE IF raw > den THEN den ELSE raw,
         den |-> den]

\* The point of a transition segment: a curve from the "from" anchor point
\* through the shape centre to the "to" anchor point, at the eased progress.
TransitionPoint(segment, progress) ==
    getPointOnCurve(getPointOnShapePerimeter(Val(segment.shape), Val(segment.fromAnchor)),
                    getShapeCenter(Val(segment.shape)),
                    getPointOnShapePerimeter(Val(segment.shape), Val(segment.toAnchor)),
                    easeInOutCubic((progress.num * 100) \div progress.den), 100)

\* The point on a segment at the given progress (Null when unresolvable)
\* with the id of the owning connection; prevSegment is the segment before
\* it in the circuit, Null for the first.
SegmentPoint(segment, prevSegment, progress, shapeList) ==
    IF segment.type = "connection" /\ segment.connection # Null THEN
        [point        |-> getPointOnPath(Val(segment.connection), shapeList,
                                         progress.num, progress.den, segment.reversed),
         connectionId |-> Val(segment.connection).id,
         num |-> progress.num, den |-> progress.den]
    ELSE IF /\ segment.type = "transition" /\ segment.shape # Null
            /\ segment.fromAnchor # Null /\ segment.toAnchor # Null THEN
        [point        |-> Some(TransitionPoint(segment, progress)),
         connectionId |-> IF /\ prevSegment # Null
                             /\ Val(prevSegment).type = "connection"
                             /\ Val(prevSegment).connection # Null
                          THEN Val(Val(prevSegment).connection).id
                          ELSE "transition",
         num |-> progress.num, den |-> progress.den]
    ELSE [point |-> Null, connectionId |-> "", num |-> progress.num, den |-> progress.den]

\* Position within the segment at index i for distance d.
PointOnSegment(circuit, i, d, shapeList) ==
    SegmentPoint(circuit[i], IF i > 1 THEN Some(circuit[i - 1]) ELSE Null,
                 SegmentProgress(circuit[i], d), shapeList)

\* `if (point && connectionId) return {...}; return null`
ResolvedPoint(p) ==
    IF p.point # Null /\ p.connectionId # ""
    THEN Some([x |-> Val(p.point).x, y |-> Val(p.point).y,
               connectionId |-> p.connectionId])
    ELSE Null

\* getPointOnCircuit past its totalLength test, at the normalized distance.
PointAtNormalized(circuit, normalizedDistance, shapeList) ==
    ResolvedPoint(PointOnSegment(circuit, SegmentIndexAt(circuit, normalizedDistance),
                                 normalizedDistance, shapeList))

\* getPointOnCircuit: Null, or Some of a point with its connection id.
getPointOnCircuit(circuit, distance, shapeList) ==
    IF TotalLength(circuit) = 0 THEN Null
    ELSE PointAtNormalized(circuit, Normalize(distance, TotalLength(circuit)), shapeList)

\* `if (point) points.push(...)`, followed by the later samples
PushSample(point, rest) ==
    IF point # Null THEN <<Val(point)>> \o rest ELSE rest

RECURSIVE SamplePoints(_, _, _, _, _, _)
\* One sampling for-loop of generateSnakeSegment: samples i..n at distance
\* base + span * i/n.  Returns the resolved samples in order.
SamplePoints(circuit, shapeList, base, span, i, n) ==
    IF i > n THEN <<>>
    ELSE PushSample(getPointOnCircuit(circuit, base + (span * i) \div n, shapeList),
                    SamplePoints(circuit, shapeList, base, span, i + 1, n))

RECURSIVE Flatten(_)
\* points.push(point.x, point.y) for each sampled point, in order
Flatten(samples) ==
    IF samples = <<>> THEN <<>>
    ELSE <<samples[1].x, samples[1].y>> \o Flatten(Tail(samples))

\* connection?.stroke || '#d946ef' for the connection owning the last sample
SnakeStroke(lastConnectionId, connectionsList) ==
    LET found == IF lastConnectionId = Null THEN {}
                 ELSE {k \in 1..Len(connectionsList) :
                          connectionsList[k].id = Val(lastConnectionId)}
    IN  IF found = {} THEN "#d946ef"
        ELSE connectionsList[CHOOSE k \in found : \A j \in found : k <= j].stroke

\* The end of generateSnakeSegment, given the resolved samples.
SnakeOf(sampled, connectionsList) ==
    IF 2 * Len(sampled) < 4 THEN Null
    ELSE Some([points |-> Flatten(sampled),
               stroke |-> SnakeStroke(IF sampled = <<>> THEN Null
                                      ELSE Some(sampled[Len(sampled)].connectionId),
                                      connectionsList)])

\* `const wrapsAround = normalizedHead < normalizedTail`
wrapsAround(normalizedTail, normalizedHead) == normalizedHead < normalizedTail

\* The samples of generateSnakeSegment between the normalized distances.
SnakeSamples(circuit, totalLength, normalizedTail, normalizedHead, shapeList) ==
    IF wrapsAround(normalizedTail, normalizedHead) THEN
        SamplePoints(circuit, shapeList, normalizedTail,
                     totalLength - normalizedTail, 0, 15)
        \o SamplePoints(circuit, shapeList, 0, normalizedHead, 0, 15)
    ELSE
        SamplePoints(circuit, shapeList, normalizedTail,
                     normalizedHead - normalizedTail, 0, 30)

\* generateSnakeSegment: Null or Some([points, stroke]).
generateSnakeSegment(circuit, tailDistance, headDistance, connectionsList, shapeList) ==
    IF TotalLength(circuit) = 0 THEN Null
    ELSE SnakeOf(SnakeSamples(circuit, TotalLength(circuit),
                              Normalize(tailDistance, TotalLength(circuit)),
                              Normalize(headDistance, TotalLength(circuit)),
                              shapeList),
                 connectionsList)

----------------------------------------------------------------------------
(* Circuit animator                                                        *)

\* Largest id requestAnimationFrame hands out in the model.
MaxFrames == 3

\* Number of times the clock advances.
MaxClock == 2

\* The closure state of usePathAnimation together with the browser's queue of
\* requested frame callbacks, as one record.
Anim ==
    [isPlaying        |-> isPlaying,
     animationDots    |-> animationDots,
     snakeSegment     |-> snakeSegment,
     animationFrameId |-> animationFrameId,
     startTime        |-> startTime,
     pendingFrames    |-> pendingFrames,
     nextFrameId      |-> nextFrameId]

SetAnim(s) ==
    /\ s.nextFrameId <= MaxFrames + 1
    /\ isPlaying' = s.isPlaying
    /\ animationDots' = s.animationDots
    /\ snakeSegment' = s.snakeSegment
    /\ animationFrameId' = s.animationFrameId
    /\ startTime' = s.startTime
    /\ pendingFrames' = s.pendingFrames
    /\ nextFrameId' = s.nextFrameId

EmptyPayload == [animationDots |-> <<>>, snakeSegment |-> Null]

\* `if (point && connectionId) newDots.push(...)`
DotsOf(p) ==
    IF p.point # Null /\ p.connectionId # ""
    THEN << [connectionId |-> p.connectionId,
             x |-> Val(p.point).x, y |-> Val(p.point).y,
             progress |-> (p.num * 1000) \div p.den] >>
    ELSE <<>>

\* The dot-mode branch of animate: the new animationDots array.
DotMode(circuit, distanceAlongCircuit, shapeList) ==
    DotsOf(PointOnSegment(circuit, SegmentIndexAt(circuit, distanceAlongCircuit),
                          distanceAlongCircuit, shapeList))

\* duration = (baseDuration * (totalLength / avgPathLength)) / speedMultiplier
Duration(totalLength, cfg) ==
    (2000 * totalLength) \div (200 * OrDefault(cfg.speed, 1))

\* The distance along the circuit without the remainder by the duration.
DistanceAlongNoLoop(elapsed, duration, totalLength) ==
    (elapsed * totalLength) \div duration

\* distanceAlongCircuit = ((elapsed % duration) / duration) * totalLength
DistanceAlong(elapsed, duration, totalLength) ==
    (JsRem(elapsed, duration) * totalLength) \div duration

\* ModePayload whose snake branch publishes the dot as well.
ModePayloadKeepsDot(circuit, totalLength, distanceAlongCircuit, connectionsList, shapeList, cfg) ==
    IF (IF cfg.animationMode = "" THEN "dot" ELSE cfg.animationMode) = "snake" THEN
        [animationDots |-> DotMode(circuit, distanceAlongCircuit, shapeList),
         snakeSegment  |->
             generateSnakeSegment(
                 circuit,
                 distanceAlongCircuit - (OrDefault(cfg.snakeLength, 30) * totalLength) \div 100,
                 distanceAlongCircuit, connectionsList, shapeList)]
    ELSE
        [animationDots |-> DotMode(circuit, distanceAlongCircuit, shapeList),
         snakeSegment  |-> Null]

\* The two branches on config().animationMode.
ModePayload(circuit, totalLength, distanceAlongCircuit, connectionsList, shapeList, cfg) ==
    IF (IF cfg.animationMode = "" THEN "dot" ELSE cfg.animationMode) = "snake" THEN
        [animationDots |-> <<>>,
         snakeSegment  |->
             generateSnakeSegment(
                 circuit,
                 distanceAlongCircuit - (OrDefault(cfg.snakeLength, 30) * totalLength) \div 100,
                 distanceAlongCircuit, connectionsList, shapeList)]
    ELSE
        [animationDots |-> DotMode(circuit, distanceAlongCircuit, shapeList),
         snakeSegment  |-> Null]

\* animate from "Build circuit path" on, the circuit being built.
CircuitPayload(circuit, elapsed, connectionsList, shapeList, cfg) ==
    IF Len(circuit) = 0 \/ TotalLength(circuit) = 0 THEN EmptyPayload
    ELSE ModePayload(circuit, TotalLength(circuit),
                     DistanceAlong(elapsed, Duration(TotalLength(circuit), cfg),
                                   TotalLength(circuit)),
                     connectionsList, shapeList, cfg)

\* What one run of animate publishes at time t for a session started at
\* startT: the values assigned to animationDots and snakeSegment.
FramePayload(t, startT, connectionsList, shapeList, cfg) ==
    IF Len(connectionsList) = 0 THEN EmptyPayload
    ELSE CircuitPayload(buildCircuit(connectionsList, shapeList), t - startT,
                        connectionsList, shapeList, cfg)

\* Publish that requests the next frame without storing its id.
PublishForgetsId(s, latched, payload) ==
    [s EXCEPT !.startTime = latched,
              !.animationDots = payload.animationDots,
              !.snakeSegment = payload.snakeSegment,
              !.pendingFrames = @ \cup {s.nextFrameId},
              !.nextFrameId = @ + 1]

\* The end of animate: publish the payload, request the next frame.
Publish(s, latched, payload) ==
    [s EXCEPT !.startTime = latched,
              !.animationDots = payload.animationDots,
              !.snakeSegment = payload.snakeSegment,
              !.animationFrameId = Some(s.nextFrameId),
              !.pendingFrames = @ \cup {s.nextFrameId},
              !.nextFrameId = @ + 1]

\* animate that returns without requesting a frame when there is no connection.
FrameStopsOnEmpty(s, latched, t, connectionsList, shapeList, cfg) ==
    IF Len(connectionsList) = 0
    THEN [s EXCEPT !.startTime = latched, !.animationDots = <<>>,
                   !.snakeSegment = Null]
    ELSE Publish(s, latched, FramePayload(t, Val(latched), connectionsList, shapeList, cfg))

\* animate() from its second statement on, startTime being latched.
Frame(s, latched, t, connectionsList, shapeList, cfg) ==
    Publish(s, latched, FramePayload(t, Val(latched), connectionsList, shapeList, cfg))

\* animate that takes the current time as the start time on every run.
animateRelatch(s, t, connectionsList, shapeList, cfg) ==
    IF ~s.isPlaying THEN s
    ELSE Frame(s, Some(t), t, connectionsList, shapeList, cfg)

\* animate(): returns at once when not playing; otherwise latches the start
\* time, publishes the payload and requests the next frame.
animate(s, t, connectionsList, shapeList, cfg) ==
    IF ~s.isPlaying THEN s
    ELSE Frame(s, IF s.startTime = Null THEN Some(t) ELSE s.startTime,
               t, connectionsList, shapeList, cfg)

\* startAnimation without its `if (isPlaying.value) return`.
startAnimationNoGuard(s, t, connectionsList, shapeList, cfg) ==
    animate([s EXCEPT !.isPlaying = TRUE, !.startTime = Null,
                      !.animationDots = <<>>],
            t, connectionsList, shapeList, cfg)

startAnimation(s, t, connectionsList, shapeList, cfg) ==
    IF s.isPlaying THEN s
    ELSE animate([s EXCEPT !.isPlaying = TRUE, !.startTime = Null,
                           !.animationDots = <<>>],
                 t, connectionsList, shapeList, cfg)

\* stopAnimation that forgets the id without cancelling the callback.
stopAnimationNoCancel(s) ==
    [s EXCEPT !.animationFrameId = Null, !.isPlaying = FALSE, !.startTime = Null,
              !.animationDots = <<>>, !.snakeSegment = Null]

\* stopAnimation that leaves the snake segment in place.
stopAnimationKeepsSnake(s) ==
    LET cancelled == IF s.animationFrameId # Null
                     THEN [s EXCEPT !.pendingFrames = @ \ {Val(s.animationFrameId)},
                                    !.animationFrameId = Null]
                     ELSE s
    IN  [cancelled EXCEPT !.isPlaying = FALSE, !.startTime = Null,
                          !.animationDots = <<>>]

\* cancelAnimationFrame(id) removes the callback from the browser's queue.
stopAnimation(s) ==
    LET cancelled == IF s.animationFrameId # Null
                     THEN [s EXCEPT !.pendingFrames = @ \ {Val(s.animationFrameId)},
                                    !.animationFrameId = Null]
                     ELSE s
    IN  [cancelled EXCEPT !.isPlaying = FALSE, !.startTime = Null,
                          !.animationDots = <<>>, !.snakeSegment = Null]

\* toggleAnimation that starts whatever the state is.
toggleAnimationStartOnly(s, t, connectionsList, shapeList, cfg) ==
    startAnimation(s, t, connectionsList, shapeList, cfg)

toggleAnimation(s, t, connectionsList, shapeList, cfg) ==
    IF s.isPlaying THEN stopAnimation(s)
    ELSE startAnimation(s, t, connectionsList, shapeList, cfg)

\* watchCallback without the branch that stops.
watchCallbackStartOnly(enabled, s, t, connectionsList, shapeList, cfg) ==
    IF enabled /\ ~s.isPlaying THEN startAnimation(s, t, connectionsList, shapeList, cfg)
    ELSE s

\* The watcher's callback, called with the new value of config().enabled.
watchCallback(enabled, s, t, connectionsList, shapeList, cfg) ==
    IF enabled /\ ~s.isPlaying THEN startAnimation(s, t, connectionsList, shapeList, cfg)
    ELSE IF ~enabled /\ s.isPlaying THEN stopAnimation(s)
    ELSE s

----------------------------------------------------------------------------
(* The animator's operations                                               *)

PoolConn(id) == CHOOSE c \in ConnectionPool : c.id = id

\* The scenes the animator runs on, each a connection list with a shape
\* list: no connection, one connection, a chain with a transition, the same
\* chain with its middle shape missing, a zero-length circuit, and two
\* disconnected connections, with every shape and with one of them dangling.
AnimScenes ==
    { <<<<>>, AllShapes>>,
      <<<<PoolConn("c1")>>, AllShapes>>,
      <<<<PoolConn("c1"), PoolConn("c2")>>, AllShapes>>,
      <<<<PoolConn("c1"), PoolConn("c2")>>, SelectSeq(AllShapes, LAMBDA s : s.id # "B")>>,
      <<<<PoolConn("c9")>>, AllShapes>>,
      <<<<PoolConn("c1"), PoolConn("c5")>>, AllShapes>>,
      <<<<PoolConn("c1"), PoolConn("c5")>>, SelectSeq(AllShapes, LAMBDA s : s.id # "B")>> }

AnimModes == {"dot", "snake"}

\* History of the last step: an operation of the animator with the value
\* of isPlaying it found, or a step of the environment.
Op(name) == [name |-> name, wasPlaying |-> isPlaying]

EnvOp == [name |-> "env", wasPlaying |-> FALSE]

\* usePathAnimation before its set-up has run, whatever the config.
AnimIdle ==
    /\ isPlaying = FALSE
    /\ animationDots = <<>>
    /\ snakeSegment = Null
    /\ animationFrameId = Null
    /\ startTime = Null
    /\ pendingFrames = {}
    /\ nextFrameId = 1
    /\ now = 0
    /\ watchedEnabled = FALSE
    /\ lifecycle = "setup"
    /\ watcherDirty = FALSE
    /\ lastOp = [name |-> "init", wasPlaying |-> FALSE]

AnimInit ==
    /\ AnimIdle
    /\ config \in [enabled : BOOLEAN, speed : {1}, animationMode : AnimModes,
                   snakeLength : {20}]

\* watch(..., { immediate: true }): the callback runs once, synchronously,
\* while usePathAnimation is being set up.
WatchImmediate ==
    /\ lifecycle = "setup"
    /\ SetAnim(watchCallback(config.enabled, Anim, now, connections, shapes, config))
    /\ watchedEnabled' = config.enabled
    /\ lifecycle' = "mounted"
    /\ lastOp' = Op("watch")
    /\ UNCHANGED <<now, config, watcherDirty, sceneVars, buildVars,
                   canvasVars, evalVars>>

\* The owner of the config flips enabled; a live watcher queues its job.
SetEnabled ==
    /\ lifecycle # "setup"
    /\ config' = [config EXCEPT !.enabled = ~config.enabled]
    /\ watcherDirty' = (lifecycle = "mounted")
    /\ lastOp' = EnvOp
    /\ UNCHANGED <<isPlaying, animationDots, snakeSegment, animationFrameId,
                   startTime, pendingFrames, nextFrameId, now, watchedEnabled,
                   lifecycle, sceneVars, buildVars,
                   canvasVars, evalVars>>

\* The queued watcher job runs (before any later frame): it calls the
\* callback only when the watched value differs from the one it saw last.
WatcherFlush ==
    /\ lifecycle = "mounted"
    /\ watcherDirty
    /\ watcherDirty' = FALSE
    /\ IF config.enabled # watchedEnabled THEN
           /\ SetAnim(watchCallback(config.enabled, Anim, now, connections, shapes, config))
           /\ watchedEnabled' = config.enabled
           /\ lastOp' = Op("watch")
       ELSE
           /\ UNCHANGED <<isPlaying, animationDots, snakeSegment, animationFrameId,
                          startTime, pendingFrames, nextFrameId, watchedEnabled>>
           /\ lastOp' = EnvOp
    /\ UNCHANGED <<now, config, lifecycle, sceneVars, buildVars,
                   canvasVars, evalVars>>

\* The owner of the config switches the animation mode.
SetMode ==
    /\ lifecycle # "setup"
    /\ \E m \in AnimModes \ {config.animationMode} :
           config' = [config EXCEPT !.animationMode = m]
    /\ lastOp' = EnvOp
    /\ UNCHANGED <<isPlaying, animationDots, snakeSegment, animationFrameId,
                   startTime, pendingFrames, nextFrameId, now, watchedEnabled,
                   lifecycle, watcherDirty, sceneVars, buildVars,
                   canvasVars, evalVars>>

\* The editor replaces the connection list or the shape list between frames.
SetScene ==
    /\ lifecycle # "setup"
    /\ \E scene \in AnimScenes \ {<<connections, shapes>>} :
           /\ connections' = scene[1]
           /\ shapes' = scene[2]
    /\ lastOp' = EnvOp
    /\ UNCHANGED <<isPlaying, animationDots, snakeSegment, animationFrameId,
                   startTime, pendingFrames, nextFrameId, now, config,
                   watchedEnabled, lifecycle, watcherDirty, buildVars,
                   canvasVars, evalVars>>

\* Time passes.
AdvanceClock ==
    /\ now < MaxClock * 500
    /\ now' = now + 500
    /\ lastOp' = EnvOp
    /\ UNCHANGED <<isPlaying, animationDots, snakeSegment, animationFrameId,
                   startTime, pendingFrames, nextFrameId, config, watchedEnabled,
                   lifecycle, watcherDirty, sceneVars, buildVars,
                   canvasVars, evalVars>>

\* A direct call of the exposed startAnimation().
StartAnimation ==
    /\ lifecycle # "setup"
    /\ SetAnim(startAnimation(Anim, now, connections, shapes, config))
    /\ lastOp' = Op("start")
    /\ UNCHANGED <<now, config, watchedEnabled, lifecycle, watcherDirty,
                   sceneVars, buildVars,
                   canvasVars, evalVars>>

\* A direct call of the exposed stopAnimation().
StopAnimation ==
    /\ lifecycle # "setup"
    /\ SetAnim(stopAnimation(Anim))
    /\ lastOp' = Op("stop")
    /\ UNCHANGED <<now, config, watchedEnabled, lifecycle, watcherDirty,
                   sceneVars, buildVars,
                   canvasVars, evalVars>>

\* A direct call of the exposed toggleAnimation().
ToggleAnimation ==
    /\ lifecycle # "setup"
    /\ SetAnim(toggleAnimation(Anim, now, connections, shapes, config))
    /\ lastOp' = Op("toggle")
    /\ UNCHANGED <<now, config, watchedEnabled, lifecycle, watcherDirty,
                   sceneVars, buildVars,
                   canvasVars, evalVars>>

\* The browser runs a requested frame callback: it leaves the queue and
\* animate() runs.  Queued watcher jobs run before the next frame.
Tick ==
    /\ ~watcherDirty
    /\ \E id \in pendingFrames :
           SetAnim(animate([Anim EXCEPT !.pendingFrames = @ \ {id}],
                           now, connections, shapes, config))
    /\ lastOp' = Op("tick")
    /\ UNCHANGED <<now, config, watchedEnabled, lifecycle, watcherDirty,
                   sceneVars, buildVars,
                   canvasVars, evalVars>>

\* onUnmounted: stopAnimation(); the component's watcher is stopped with it.
Unmount ==
    /\ lifecycle = "mounted"
    /\ SetAnim(stopAnimation(Anim))
    /\ lifecycle' = "unmounted"
    /\ watcherDirty' = FALSE
    /\ lastOp' = Op("unmount")
    /\ UNCHANGED <<now, config, watchedEnabled, sceneVars, buildVars,
                   canvasVars, evalVars>>

----------------------------------------------------------------------------
(* The canvas editor (useCanvasState)                                      *)

\* Largest numbers of shapes addShape and of connections addConnection
\* create in a run.
MaxShapesCreated == 2

MaxConnectionsCreated == 1

\* The ids addShape and addConnection generate (`shape-${Date.now()}-...`,
\* `connection-${Date.now()}-...`): the n-th generated id is new.
ShapeIdOf(n) ==
    <<"shape-1", "shape-2", "shape-3", "shape-4", "shape-5", "shape-6",
      "shape-7", "shape-8">>[n]

ConnectionIdOf(n) ==
    <<"connection-1", "connection-2", "connection-3", "connection-4",
      "connection-5", "connection-6", "connection-7", "connection-8">>[n]

\* selectedColor.value; none of the operations below assigns it.
selectedColor == "#60a5fa"

\* The refs of useCanvasState as one record.
Canvas ==
    [shapes               |-> shapes,
     connections          |-> connections,
     currentTool          |-> currentTool,
     selectedShapeId      |-> selectedShapeId,
     selectedConnectionId |-> selectedConnectionId,
     pendingLineStart     |-> pendingLineStart,
     created              |-> created]

SetCanvas(cv) ==
    /\ cv.created.shapes <= MaxShapesCreated
    /\ cv.created.connections <= MaxConnectionsCreated
    /\ shapes' = cv.shapes
    /\ connections' = cv.connections
    /\ currentTool' = cv.currentTool
    /\ selectedShapeId' = cv.selectedShapeId
    /\ selectedConnectionId' = cv.selectedConnectionId
    /\ pendingLineStart' = cv.pendingLineStart
    /\ created' = cv.created

\* The z component of v x d for the direction v at m hundredths of a turn
\* clockwise from "up", (sin, -cos) on the screen, and d = (dx, dy): it is
\* >= 0 exactly when d is at most half a turn clockwise from v.
Cross(m, dx, dy) == SinHundredths(m) * dy + CosHundredths(m) * dx

\* (angle + pi/2) / (2*pi), less 1 when >= 1, for angle = atan2(dy, dx): the
\* hundredth of a turn the direction falls in.
TurnOf(dx, dy) ==
    CHOOSE m \in 0..99 : Cross(m, dx, dy) >= 0 /\ Cross(m + 1, dx, dy) < 0

\* snapToAnchor of the position given in hundredths: Math.round(position *
\* 10) / 10, in tenths.  Positions from 0.95 on snap to 1.
snapToAnchor(m) == (m + 5) \div 10

\* The direction from fromCenter to toCenter; atan2(0, 0) is 0, the
\* direction of the positive x axis.
BestAnchorBetween(fromCenter, toCenter) ==
    IF toCenter = fromCenter THEN snapToAnchor(TurnOf(1, 0))
    ELSE snapToAnchor(TurnOf(toCenter.x - fromCenter.x, toCenter.y - fromCenter.y))

calculateBestAnchor(fromShape, toShape) ==
    BestAnchorBetween(getShapeCenter(fromShape), getShapeCenter(toShape))

addShape(cv, type, x, y) ==
    [cv EXCEPT !.shapes = Append(@, Shape(ShapeIdOf(cv.created.shapes + 1), type, x, y)),
               !.created.shapes = @ + 1]

\* removeShape that leaves the connection list alone.
removeShapeKeepsConnections(cv, id) ==
    [cv EXCEPT !.shapes = SelectSeq(@, LAMBDA shape : shape.id # id),
               !.selectedShapeId = IF @ = id THEN "null" ELSE @]

removeShape(cv, id) ==
    [cv EXCEPT !.shapes = SelectSeq(@, LAMBDA shape : shape.id # id),
               !.connections = SelectSeq(@, LAMBDA c : c.fromShapeId # id
                                                       /\ c.toShapeId # id),
               !.selectedShapeId = IF @ = id THEN "null" ELSE @]

\* -dy / len * (len * 0.3) and dx / len * (len * 0.3); (0, 0) when len = 0
calculateDefaultCurveOffset(from, to) ==
    [x |-> (0 - (to.y - from.y) * 3) \div 10, y |-> ((to.x - from.x) * 3) \div 10]

\* addConnection past its guard, the shapes found and the anchors chosen.
PushConnection(cv, fromShape, toShape, fromAnchor, toAnchor) ==
    [cv EXCEPT
        !.connections =
            Append(@, [id          |-> ConnectionIdOf(cv.created.connections + 1),
                       fromShapeId |-> fromShape.id,
                       toShapeId   |-> toShape.id,
                       fromAnchor  |-> Some(fromAnchor),
                       toAnchor    |-> Some(toAnchor),
                       stroke      |-> selectedColor,
                       curveOffset |->
                           IF cv.currentTool = "curved-line"
                           THEN Some(calculateDefaultCurveOffset(
                                         getAnchorPosition(fromShape, fromAnchor.position),
                                         getAnchorPosition(toShape, toAnchor.position)))
                           ELSE Null]),
        !.created.connections = @ + 1]

\* addConnection once both shapes have been looked up.
ConnectShapes(cv, fromShape, toShape, fromAnchorOverride, toAnchorOverride) ==
    IF fromShape = Null \/ toShape = Null THEN cv
    ELSE PushConnection(
             cv, Val(fromShape), Val(toShape),
             IF fromAnchorOverride # Null THEN Val(fromAnchorOverride)
             ELSE [position |-> calculateBestAnchor(Val(fromShape), Val(toShape))],
             IF toAnchorOverride # Null THEN Val(toAnchorOverride)
             ELSE [position |-> calculateBestAnchor(Val(toShape), Val(fromShape))])

addConnection(cv, fromShapeId, toShapeId, fromAnchorOverride, toAnchorOverride) ==
    ConnectShapes(cv, FindShape(cv.shapes, fromShapeId), FindShape(cv.shapes, toShapeId),
                  fromAnchorOverride, toAnchorOverride)

removeConnection(cv, id) ==
    [cv EXCEPT !.connections = SelectSeq(@, LAMBDA c : c.id # id),
               !.selectedConnectionId = IF @ = id THEN "null" ELSE @]

updateShapeColor(cv, id, color) ==
    [cv EXCEPT !.shapes = [i \in DOMAIN @ |->
                              IF @[i].id = id /\ \A j \in 1..(i - 1) : @[j].id # id
                              THEN [@[i] EXCEPT !.fill = color] ELSE @[i]]]

updateConnectionColor(cv, id, color) ==
    [cv EXCEPT !.connections = [i \in DOMAIN @ |->
                                   IF @[i].id = id /\ \A j \in 1..(i - 1) : @[j].id # id
                                   THEN [@[i] EXCEPT !.stroke = color] ELSE @[i]]]

selectConnection(cv, id) ==
    [cv EXCEPT !.selectedConnectionId = id,
               !.selectedShapeId = IF id # "null" THEN "null" ELSE @]

selectShape(cv, id) ==
    [cv EXCEPT !.selectedShapeId = id,
               !.selectedConnectionId = IF id # "null" THEN "null" ELSE @]

handleConnectionClick(cv, connectionId) ==
    IF cv.currentTool = "delete" THEN removeConnection(cv, connectionId)
    ELSE IF cv.currentTool = "paint" THEN
        [updateConnectionColor(cv, connectionId, selectedColor)
            EXCEPT !.selectedConnectionId = connectionId]
    ELSE selectConnection(cv, connectionId)

setTool(cv, tool) ==
    [cv EXCEPT !.currentTool = tool, !.selectedShapeId = "null",
               !.selectedConnectionId = "null", !.pendingLineStart = Null]

\* `pendingLineStart.value = { shapeId, anchor }; selectedShapeId.value = shapeId`
StartLineAt(cv, shapeId, anchor) ==
    [cv EXCEPT !.pendingLineStart = Some([shapeId |-> shapeId, anchor |-> anchor]),
               !.selectedShapeId = shapeId]

handleAnchorClick(cv, shapeId, anchor) ==
    IF cv.currentTool # "line" /\ cv.currentTool # "curved-line" THEN cv
    ELSE IF cv.pendingLineStart = Null THEN StartLineAt(cv, shapeId, anchor)
    ELSE IF Val(cv.pendingLineStart).shapeId # shapeId THEN
        StartLineAt(addConnection(cv, Val(cv.pendingLineStart).shapeId, shapeId,
                                  Some(Val(cv.pendingLineStart).anchor), Some(anchor)),
                    shapeId, anchor)
    ELSE StartLineAt(cv, shapeId, anchor)

\* The branch of handleShapeClick that completes a line between two shapes
\* that were both found.
CompleteLine(cv, shapeId, fromAnchor, toAnchor) ==
    StartLineAt(addConnection(cv, Val(cv.pendingLineStart).shapeId, shapeId,
                              Some(fromAnchor), Some(toAnchor)),
                shapeId, toAnchor)

\* The line and curved-line branch of handleShapeClick, the clicked shape
\* looked up.
LineShapeClick(cv, shapeId, shape, fromShape) ==
    IF shape = Null THEN cv
    ELSE IF cv.pendingLineStart = Null THEN StartLineAt(cv, shapeId, [position |-> 0])
    ELSE IF Val(cv.pendingLineStart).shapeId # shapeId THEN
        IF fromShape # Null
        THEN CompleteLine(cv, shapeId,
                          [position |-> calculateBestAnchor(Val(fromShape), Val(shape))],
                          [position |-> calculateBestAnchor(Val(shape), Val(fromShape))])
        ELSE cv
    ELSE cv

handleShapeClick(cv, shapeId) ==
    IF cv.currentTool = "delete" THEN removeShape(cv, shapeId)
    ELSE IF cv.currentTool = "paint" THEN
        [updateShapeColor(cv, shapeId, selectedColor) EXCEPT !.selectedShapeId = shapeId]
    ELSE IF cv.currentTool = "line" \/ cv.currentTool = "curved-line" THEN
        LineShapeClick(cv, shapeId, FindShape(cv.shapes, shapeId),
                       IF cv.pendingLineStart = Null THEN Null
                       ELSE FindShape(cv.shapes, Val(cv.pendingLineStart).shapeId))
    ELSE selectShape(cv, shapeId)

handleCanvasClick(cv, x, y) ==
    IF cv.currentTool \in {"square", "triangle", "circle"} THEN
        addShape(cv, cv.currentTool, x, y)
    ELSE IF cv.currentTool = "line" \/ cv.currentTool = "curved-line" THEN
        [cv EXCEPT !.pendingLineStart = Null, !.selectedShapeId = "null",
                   !.selectedConnectionId = "null"]
    ELSE [cv EXCEPT !.selectedShapeId = "null", !.selectedConnectionId = "null"]

\* The refs of useCanvasState as they are created; shapes and connections
\* are given by the specification.
CanvasInit ==
    /\ currentTool = "square"
    /\ selectedShapeId = "null"
    /\ selectedConnectionId = "null"
    /\ pendingLineStart = Null
    /\ created = [shapes |-> 0, connections |-> 0]
    /\ lastEdit = [name |-> "init"]

\* What the operations are called with: a square and a circle at different
\* places, one place for a click on the empty canvas, one tool for every
\* branch the handlers take on currentTool, every id generated so far (ids
\* of removed shapes and connections included), one anchor.
CanvasPlacements ==
    {[type |-> "square", x |-> 0, y |-> 0], [type |-> "circle", x |-> 100, y |-> 60]}

CanvasPoints == {[x |-> 100, y |-> 60]}

CanvasTools == {"pan", "circle", "line", "curved-line", "delete", "paint"}

ShapeIds == {ShapeIdOf(n) : n \in 1..created.shapes}

ConnectionIds == {ConnectionIdOf(n) : n \in 1..created.connections}

CanvasAnchors == {[position |-> 7]}

\* The operation that ran last: removeShape with the id it was called with
\* and the number of connections it found, addConnection with whether one of
\* its two shapes was missing.
Edit(name) == [name |-> name]

AddShape ==
    \E placement \in CanvasPlacements :
        /\ SetCanvas(addShape(Canvas, placement.type, placement.x, placement.y))
        /\ lastEdit' = Edit("other")
        /\ UNCHANGED <<buildVars, animVars, evalVars>>

RemoveShape ==
    \E id \in ShapeIds :
        /\ SetCanvas(removeShape(Canvas, id))
        /\ lastEdit' = [name |-> "removeShape", id |-> id, before |-> Len(connections)]
        /\ UNCHANGED <<buildVars, animVars, evalVars>>

AddConnection ==
    \E fromShapeId \in ShapeIds, toShapeId \in ShapeIds,
       overrides \in {<<Null, Null>>} \cup
                     {<<Some(a), Some(b)>> : a \in CanvasAnchors, b \in CanvasAnchors} :
        /\ SetCanvas(addConnection(Canvas, fromShapeId, toShapeId,
                                   overrides[1], overrides[2]))
        /\ lastEdit' = [name |-> "addConnection",
                        missing |-> \/ FindShape(shapes, fromShapeId) = Null
                                    \/ FindShape(shapes, toShapeId) = Null]
        /\ UNCHANGED <<buildVars, animVars, evalVars>>

RemoveConnection ==
    \E id \in ConnectionIds :
        /\ SetCanvas(removeConnection(Canvas, id))
        /\ lastEdit' = Edit("other")
        /\ UNCHANGED <<buildVars, animVars, evalVars>>

SetTool ==
    \E tool \in CanvasTools :
        /\ SetCanvas(setTool(Canvas, tool))
        /\ lastEdit' = Edit("other")
        /\ UNCHANGED <<buildVars, animVars, evalVars>>

HandleShapeClick ==
    \E shapeId \in ShapeIds :
        /\ SetCanvas(handleShapeClick(Canvas, shapeId))
        /\ lastEdit' = Edit("other")
        /\ UNCHANGED <<buildVars, animVars, evalVars>>

HandleAnchorClick ==
    \E shapeId \in ShapeIds, anchor \in CanvasAnchors :
        /\ SetCanvas(handleAnchorClick(Canvas, shapeId, anchor))
        /\ lastEdit' = Edit("other")
        /\ UNCHANGED <<buildVars, animVars, evalVars>>

HandleConnectionClick ==
    \E connectionId \in ConnectionIds :
        /\ SetCanvas(handleConnectionClick(Canvas, connectionId))
        /\ lastEdit' = Edit("other")
        /\ UNCHANGED <<buildVars, animVars, evalVars>>

HandleCanvasClick ==
    \E point \in CanvasPoints :
        /\ SetCanvas(handleCanvasClick(Canvas, point.x, point.y))
        /\ lastEdit' = Edit("other")
        /\ UNCHANGED <<buildVars, animVars, evalVars>>

----------------------------------------------------------------------------
(* Single evaluations of the engine's functions                            *)

NoCall == [fn |-> "none"]

EvalInit ==
    /\ call = NoCall
    /\ ret = Null

\* Whole turns on either side of [0, 1) from which anchors are drawn.
MaxTurns == 1

\* The anchors, in hundredths, getAnchorPosition is evaluated at.
EvalAnchors == (0 - MaxTurns * 100) .. (MaxTurns * 100 + 99)

\* One shape of each kind.
EvalShapes == {AllShapes[1], AllShapes[2], AllShapes[3]}

\* A straight connection of length 300 between two circles.
LongLine ==
    << <<Conn("c13", "A", 0, "E", 0, Null)>>,
       <<Shape("A", "circle", 0, 0), Shape("E", "circle", 300, 0)>> >>

\* Scenes whose circuit has a positive length and no dangling connection.
EvalScenes ==
    { <<<<PoolConn("c1")>>, AllShapes>>,
      <<<<PoolConn("c1"), PoolConn("c2")>>, AllShapes>>,
      <<<<PoolConn("c1"), PoolConn("c5")>>, AllShapes>>,
      LongLine }

\* The connections getPointOnPath is evaluated on, both shapes present:
\* straight and curved ones, a self-loop among them; and the parameters t,
\* in twentieths.
PathConnections == {PoolConn("c1"), PoolConn("c6"), PoolConn("c7"), PoolConn("c10"),
                    PoolConn("c11")}

PathParameters == 0..20

\* The scenes the segment of a distance is looked up on: those above, and a
\* chain with a zero-length connection and a transition in it.
SegmentScenes ==
    EvalScenes \cup { <<<<PoolConn("c1"), PoolConn("c9"), PoolConn("c2")>>, AllShapes>> }

\* Elapsed times (ms) and head distances (pixels) the frame is evaluated at.
EvalElapsed == {0, 1, 250, 500, 664, 665, 1000, 1329, 1400, 2000, 2979}

EvalHeads == {0, 10, 26, 27, 50, 59, 60, 61, 100, 132, 149, 150, 290, 297}

\* The points findNearestAnchor is given that need not lie on the perimeter,
\* relative to the shape's position: inside and outside of the shape, the
\* centre of the circle and the centre of the square among them.
EvalOffsets ==
    {[x |-> dx, y |-> dy] : dx \in {-30, 0, 10, 20, 55}, dy \in {-25, 0, 20, 45}}

EvalConfig(speed, animationMode, snakeLength) ==
    [enabled |-> FALSE, speed |-> speed, animationMode |-> animationMode,
     snakeLength |-> snakeLength]

\* One call is about to be made: of getAnchorPosition or findNearestAnchor
\* on a shape, or of the frame computation of animate on a scene.
InitEval ==
    /\ BuildInit
    /\ AnimIdle
    /\ CanvasInit
    /\ ret = Null
    /\ \/ /\ shapes = AllShapes
          /\ connections = <<>>
          /\ config = EvalConfig(1, "dot", 20)
          /\ \/ \E shape \in EvalShapes, h \in EvalAnchors :
                    call = [fn |-> "getAnchorPosition", shape |-> shape, h |-> h]
             \/ \E shape \in EvalShapes, h \in 0..99 :
                    call = [fn |-> "findNearestAnchor", shape |-> shape, h |-> h]
             \/ \E shape \in EvalShapes, offset \in EvalOffsets :
                    call = [fn |-> "findNearestAnchor of a point", shape |-> shape,
                            point |-> [x |-> shape.x + offset.x, y |-> shape.y + offset.y]]
       \/ /\ shapes = AllShapes
          /\ config = EvalConfig(1, "dot", 20)
          /\ \E connection \in PathConnections, num \in PathParameters,
                reversed \in BOOLEAN :
                 /\ connections = <<connection>>
                 /\ call = [fn |-> "getPointOnPath", connection |-> connection,
                            num |-> num, reversed |-> reversed]
       \/ /\ \E scene \in SegmentScenes :
                 /\ connections = scene[1]
                 /\ shapes = scene[2]
          /\ \/ /\ \E speed \in {1, 2} : config = EvalConfig(speed, "dot", 20)
                /\ \E x \in EvalElapsed :
                       /\ x < Duration(TotalLength(buildCircuit(connections, shapes)), config)
                       /\ <<connections, shapes>> \in EvalScenes
                       /\ call = [fn |-> "animate", elapsed |-> x]
             \/ /\ config = EvalConfig(1, "dot", 20)
                /\ \E d \in 0..TotalLength(buildCircuit(connections, shapes)) :
                       call = [fn |-> "segment lookup", distance |-> d]
             \/ /\ \E snakeLength \in {20, 50} :
                       config = EvalConfig(1, "snake", snakeLength)
                /\ \E d \in EvalHeads :
                       /\ d < TotalLength(buildCircuit(connections, shapes))
                       /\ <<connections, shapes>> \in EvalScenes
                       /\ call = [fn |-> "generateSnakeSegment", head |-> d]

\* getAnchorPosition(shape, {position}) returns.
EvalAnchorPosition ==
    /\ call.fn = "getAnchorPosition"
    /\ ret = Null
    /\ ret' = Some(getAnchorPositionAt(call.shape, call.h))
    /\ UNCHANGED <<sceneVars, buildVars, animVars, canvasVars, call>>

\* findNearestAnchor(shape, point) returns, the point being the point of
\* the perimeter at the anchor call.h.
EvalNearestAnchor ==
    /\ call.fn = "findNearestAnchor"
    /\ ret = Null
    /\ ret' = Some(findNearestAnchor(call.shape,
                                     getAnchorPositionAt(call.shape, call.h)))
    /\ UNCHANGED <<sceneVars, buildVars, animVars, canvasVars, call>>

\* findNearestAnchor(shape, point) returns, the point being any point.
EvalNearestPoint ==
    /\ call.fn = "findNearestAnchor of a point"
    /\ ret = Null
    /\ ret' = Some(findNearestAnchor(call.shape, call.point))
    /\ UNCHANGED <<sceneVars, buildVars, animVars, canvasVars, call>>

\* The segment look-up of the dot branch of animate() and of
\* getPointOnCircuit at the distance call.distance: the index of the segment
\* used and the clamped progress within it.
SegmentLookup(circuit, i, d) ==
    [index |-> i, segment |-> circuit[i], progress |-> SegmentProgress(circuit[i], d)]

EvalSegment ==
    /\ call.fn = "segment lookup"
    /\ ret = Null
    /\ ret' = Some(SegmentLookup(buildCircuit(connections, shapes),
                                 SegmentIndexAt(buildCircuit(connections, shapes),
                                                call.distance),
                                 call.distance))
    /\ UNCHANGED <<sceneVars, buildVars, animVars, canvasVars, call>>

\* getPointOnPath(connection, t, reversed) returns, t being call.num / 20.
EvalPath ==
    /\ call.fn = "getPointOnPath"
    /\ ret = Null
    /\ ret' = Some(getPointOnPath(call.connection, shapes, call.num, 20, call.reversed))
    /\ UNCHANGED <<sceneVars, buildVars, animVars, canvasVars, call>>

\* The dots animate() publishes at the elapsed time `elapsed`.
DotsAt(elapsed) ==
    FramePayload(elapsed, 0, connections, shapes, config).animationDots

\* Two frames of animate() in dot mode, one duration apart.
EvalDots ==
    /\ call.fn = "animate"
    /\ ret = Null
    /\ ret' = Some([first  |-> DotsAt(call.elapsed),
                    second |-> DotsAt(call.elapsed
                                      + Duration(TotalLength(buildCircuit(connections, shapes)),
                                                 config))])
    /\ UNCHANGED <<sceneVars, buildVars, animVars, canvasVars, call>>

\* The snake branch of animate() with the head at distance call.head.
EvalSnake ==
    /\ call.fn = "generateSnakeSegment"
    /\ ret = Null
    /\ ret' = Some(ModePayload(buildCircuit(connections, shapes),
                               TotalLength(buildCircuit(connections, shapes)),
                               call.head, connections, shapes, config).snakeSegment)
    /\ UNCHANGED <<sceneVars, buildVars, animVars, canvasVars, call>>

----------------------------------------------------------------------------
(* Specifications                                                          *)

\* The animator, on the scenes of AnimScenes.
Init ==
    /\ \E scene \in AnimScenes :
           /\ connections = scene[1]
           /\ shapes = scene[2]
    /\ BuildInit
    /\ AnimInit
    /\ CanvasInit
    /\ EvalInit

Next ==
    \/ WatchImmediate
    \/ SetEnabled
    \/ WatcherFlush
    \/ SetMode
    \/ SetScene
    \/ AdvanceClock
    \/ StartAnimation
    \/ StopAnimation
    \/ ToggleAnimation
    \/ Tick
    \/ Unmount

Spec == Init /\ [][Next]_vars

\* The editor, from the empty canvas.
InitCanvas ==
    /\ shapes = <<>>
    /\ connections = <<>>
    /\ BuildInit
    /\ AnimIdle
    /\ config = EvalConfig(1, "dot", 20)
    /\ CanvasInit
    /\ EvalInit

NextCanvas ==
    \/ AddShape
    \/ RemoveShape
    \/ AddConnection
    \/ RemoveConnection
    \/ SetTool
    \/ HandleShapeClick
    \/ HandleAnchorClick
    \/ HandleConnectionClick
    \/ HandleCanvasClick

SpecCanvas == InitCanvas /\ [][NextCanvas]_vars

\* buildCircuit alone, on every connection list over the pool.
InitCircuit ==
    /\ shapes \in ShapeLists
    /\ connections \in ConnectionLists
    /\ BuildInit
    /\ AnimInit
    /\ config.enabled = FALSE
    /\ config.animationMode = "dot"
    /\ CanvasInit
    /\ EvalInit

NextCircuit ==
    \/ CallBuildCircuit
    \/ PassContinue
    \/ PassFresh
    \/ PassBreak
    \/ ReturnCircuit

SpecCircuit == InitCircuit /\ [][NextCircuit]_vars

\* Single evaluations of the perimeter functions and of the frame.
NextEval ==
    \/ EvalAnchorPosition
    \/ EvalNearestAnchor
    \/ EvalNearestPoint
    \/ EvalSegment
    \/ EvalPath
    \/ EvalDots
    \/ EvalSnake

SpecEval == InitEval /\ [][NextEval]_vars

----------------------------------------------------------------------------
(* Properties of buildCircuit (checked under SpecCircuit)                  *)

\* The length the program computes for a segment, from its own fields.
SegmentLength(seg) ==
    IF seg.type = "connection"
    THEN calculatePathLength(Val(seg.connection), shapes)
    ELSE calculateTransitionLength(Val(seg.shape), Val(seg.fromAnchor), Val(seg.toAnchor))

RECURSIVE SumLengths(_)
SumLengths(r) ==
    IF r = <<>> THEN 0 ELSE SegmentLength(Head(r)) + SumLengths(Tail(r))

Partitioned(r) ==
    /\ Len(r) > 0
    /\ r[1].startDistance = 0
    /\ \A i \in 1..(Len(r) - 1) : r[i].endDistance = r[i + 1].startDistance
    /\ \A i \in 1..Len(r) : r[i].startDistance <= r[i].endDistance
    /\ r[Len(r)].endDistance = SumLengths(r)

\* C1: for a non-empty connection list, every returned segment list starts
\* at distance 0, is contiguous (each endDistance is the next startDistance),
\* has startDistance <= endDistance throughout, and ends at the sum of the
\* lengths of its connection and transition segments.
C1_CircuitPartition ==
    \A k \in 1..Len(results) :
        Len(connections) > 0 => Partitioned(results[k])

\* A returned circuit with a transition of positive length between two
\* connection segments of positive length.
C1_Witness ==
    \E k \in 1..Len(results) :
        /\ Len(results[k]) >= 3
        /\ \E i \in 2..(Len(results[k]) - 1) :
               /\ results[k][i].type = "transition"
               /\ results[k][i].endDistance > results[k][i].startDistance
               /\ results[k][i - 1].endDistance > results[k][i - 1].startDistance

DistinctIds(list) ==
    \A i, j \in 1..Len(list) : i # j => list[i].id # list[j].id

\* C2: when the connection ids are pairwise distinct, every returned list
\* holds exactly one connection segment for each input connection, and every
\* other segment is a transition segment.
C2_EachConnectionOnce ==
    \A k \in 1..Len(results) :
        DistinctIds(connections) =>
            /\ \A i \in 1..Len(connections) :
                   Cardinality({j \in 1..Len(results[k]) :
                                   /\ results[k][j].type = "connection"
                                   /\ results[k][j].connection = Some(connections[i])}) = 1
            /\ \A j \in 1..Len(results[k]) :
                   \/ results[k][j].type = "transition"
                   \/ /\ results[k][j].type = "connection"
                      /\ \E i \in 1..Len(connections) :
                             results[k][j].connection = Some(connections[i])

\* Three connections with distinct ids were walked, one of them through a
\* fresh sub-path start or a transition.
C2_Witness ==
    /\ Len(connections) = 3
    /\ DistinctIds(connections)
    /\ \E k \in 1..Len(results) : Len(results[k]) >= 3

\* The exit anchor of a connection segment, and the entry anchor of one.
SegExit(seg) == getExitAnchor(Val(seg.connection), seg.reversed)

SegEntry(seg) == getEntryAnchor(Val(seg.connection), seg.reversed)

\* C3: after a pass that continued from the current shape, with that shape in
\* the shape list: if the previous connection's exit anchor differs from the
\* next connection's entry anchor, exactly one transition segment on that
\* shape, from the exit anchor to the entry anchor, lies between the two
\* connection segments; if the anchors are equal, nothing lies between them.
C3_TransitionBetween ==
    (lastPass.kind = "continue" /\ FindShape(shapes, lastPass.prevShapeId) # Null) =>
        LET n     == Len(segments)
            prev  == segments[lastPass.prevLen]
            next  == segments[n]
            exit  == SegExit(prev)
            entry == SegEntry(next)
        IN  /\ prev.type = "connection"
            /\ next.type = "connection"
            /\ exit.shapeId = lastPass.prevShapeId
            /\ entry.shapeId = lastPass.prevShapeId
            /\ IF exit.anchor # entry.anchor THEN
                   /\ n = lastPass.prevLen + 2
                   /\ segments[n - 1].type = "transition"
                   /\ segments[n - 1].shape = FindShape(shapes, lastPass.prevShapeId)
                   /\ segments[n - 1].fromAnchor = exit.anchor
                   /\ segments[n - 1].toAnchor = entry.anchor
               ELSE n = lastPass.prevLen + 1

\* A continuing pass has just placed a transition whose exit anchor is 0, in
\* a walk that earlier continued through a shape at equal anchors.
C3_Witness ==
    /\ lastPass.kind = "continue"
    /\ FindShape(shapes, lastPass.prevShapeId) # Null
    /\ Len(segments) = lastPass.prevLen + 2
    /\ segments[Len(segments) - 1].type = "transition"
    /\ segments[Len(segments) - 1].fromAnchor = Some(0)
    /\ \E j \in 1..(lastPass.prevLen - 1) :
           /\ segments[j].type = "connection"
           /\ segments[j + 1].type = "connection"
           /\ SegExit(segments[j]) = SegEntry(segments[j + 1])

SharesNoShape(a, b) ==
    {a.fromShapeId, a.toShapeId} \cap {b.fromShapeId, b.toShapeId} = {}

\* C4: two connections that share no shape give exactly two connection
\* segments, in list order, and nothing else; and whenever a pass starts a
\* fresh sub-path, the segment it appends is the first unused connection in
\* list order, not reversed, directly after a connection segment.
C4_FreshSubPath ==
    /\ \A k \in 1..Len(results) :
           (Len(connections) = 2 /\ SharesNoShape(connections[1], connections[2])) =>
               /\ Len(results[k]) = 2
               /\ \A i \in 1..2 :
                      /\ results[k][i].type = "connection"
                      /\ results[k][i].connection = Some(connections[i])
    /\ lastPass.kind = "fresh" =>
           /\ Len(segments) = lastPass.prevLen + 1
           /\ segments[lastPass.prevLen].type = "connection"
           /\ segments[Len(segments)].type = "connection"
           /\ segments[Len(segments)].reversed = FALSE
           /\ \E i \in 1..Len(connections) :
                  /\ segments[Len(segments)].connection = Some(connections[i])
                  /\ connections[i].id \notin lastPass.prevUsed
                  /\ \A j \in 1..(i - 1) : connections[j].id \in lastPass.prevUsed

\* A fresh sub-path has just been started although a later connection in the
\* list was unused as well.
C4_Witness ==
    /\ lastPass.kind = "fresh"
    /\ Len(connections) = 3
    /\ DistinctIds(connections)
    /\ lastPass.index = 2
    /\ SharesNoShape(connections[1], connections[2])

\* C5: an empty list gives an empty circuit; a list of one connection gives
\* one connection segment for it, not reversed, from 0 to its length.
C5_EmptyAndSingle ==
    \A k \in 1..Len(results) :
        /\ Len(connections) = 0 => results[k] = <<>>
        /\ Len(connections) = 1 =>
               /\ Len(results[k]) = 1
               /\ results[k][1].type = "connection"
               /\ results[k][1].connection = Some(connections[1])
               /\ results[k][1].reversed = FALSE
               /\ results[k][1].startDistance = 0
               /\ results[k][1].endDistance = calculatePathLength(connections[1], shapes)

\* A single connection of positive length has been built.
C5_Witness ==
    /\ Len(connections) = 1
    /\ Len(results) >= 1
    /\ results[1][1].endDistance > 0

\* C6: all calls on the same connection list and shapes return the same
\* segment list, and no step of buildCircuit changes the connection list or
\* the shapes.
C6_RebuildIdentical ==
    /\ [](\A i, j \in 1..Len(results) : results[i] = results[j])
    /\ [][connections' = connections /\ shapes' = shapes]_vars

\* Two calls have returned a circuit of at least three segments.
C6_Witness ==
    /\ Len(results) >= 2
    /\ Len(results[1]) >= 3
    /\ Len(results[2]) >= 3

----------------------------------------------------------------------------
(* Properties of the animator (checked under Spec)                         *)

\* C7: startAnimation() called while playing changes nothing: isPlaying, the
\* start time, the pending frame callbacks, the frame id and the payload all
\* keep their values, and no frame is requested.
C7_StartWhilePlayingNoOp ==
    [][(lastOp'.name = "start" /\ isPlaying) =>
           UNCHANGED <<isPlaying, startTime, animationFrameId, pendingFrames,
                       nextFrameId, animationDots, snakeSegment>>]_vars

\* startAnimation() has just been called on a playing animator that shows a
\* dot and has latched its start time.
C7_Witness ==
    /\ lastOp.name = "start"
    /\ lastOp.wasPlaying
    /\ animationDots # <<>>
    /\ startTime # Null
    /\ pendingFrames # {}

\* C8: right after stopAnimation(), isPlaying is false, no frame callback is
\* pending, animationFrameId and the start time are null, and the payload is
\* empty.
C8_StopClearsAll ==
    lastOp.name = "stop" =>
        /\ ~isPlaying
        /\ pendingFrames = {}
        /\ animationFrameId = Null
        /\ startTime = Null
        /\ animationDots = <<>>
        /\ snakeSegment = Null

\* stopAnimation() has just run on an animator that was playing, in snake
\* mode over a circuit of positive length.
C8_Witness ==
    /\ lastOp.name = "stop"
    /\ lastOp.wasPlaying
    /\ config.animationMode = "snake"
    /\ Len(connections) = 2
    /\ nextFrameId > 2

\* C9: while the animator is idle no frame callback is pending, so no tick
\* runs, and the payload is empty.
C9_IdleIsQuiet ==
    ~isPlaying =>
        /\ pendingFrames = {}
        /\ animationDots = <<>>
        /\ snakeSegment = Null

\* The animator has played, was stopped or torn down, and time has passed
\* since.
C9_Witness ==
    /\ ~isPlaying
    /\ nextFrameId > 2
    /\ lastOp.name = "env"
    /\ now > 0
    /\ lifecycle = "unmounted"

\* C10: right after the watcher's callback has run (at set-up or on a change
\* of config.enabled), isPlaying equals config.enabled.
C10_WatcherSyncs ==
    lastOp.name = "watch" => isPlaying = config.enabled

\* The watcher has just stopped an animator that was playing.
C10_Witness ==
    /\ lastOp.name = "watch"
    /\ lifecycle = "mounted"
    /\ lastOp.wasPlaying
    /\ ~isPlaying
    /\ ~config.enabled

\* C11: toggleAnimation() negates isPlaying; called while playing it leaves
\* what stopAnimation() leaves: no pending frame callback, animationFrameId
\* and the start time null, no dots and no snake.
C11_ToggleNegates ==
    lastOp.name = "toggle" =>
        /\ isPlaying = ~lastOp.wasPlaying
        /\ lastOp.wasPlaying =>
               /\ pendingFrames = {}
               /\ animationFrameId = Null
               /\ startTime = Null
               /\ animationDots = <<>>
               /\ snakeSegment = Null

\* toggleAnimation() has just stopped an animator that had run frames.
C11_Witness ==
    /\ lastOp.name = "toggle"
    /\ lastOp.wasPlaying
    /\ ~isPlaying
    /\ nextFrameId > 2
    /\ Len(connections) = 2

\* The connection names a shape that is not in the current shape list.
Dangling(connection) ==
    \/ FindShape(shapes, connection.fromShapeId) = Null
    \/ FindShape(shapes, connection.toShapeId) = Null

\* The circuit animate() builds from the current scene.
CurrentCircuit == buildCircuit(connections, shapes)

\* A frame has just run on a playing animator.
Ticked == lastOp.name = "tick" /\ lastOp.wasPlaying

\* C13: a frame that finds no connection, or a circuit of total length 0,
\* publishes the empty payload, leaves the animator playing and requests
\* exactly one next frame; the state is not terminal: a frame that finds a
\* circuit of positive length whose shapes all resolve publishes a dot (dot
\* mode) or a snake (snake mode).
C13_EmptyTickReschedules ==
    Ticked =>
        /\ isPlaying
        /\ animationFrameId # Null
        /\ pendingFrames = {Val(animationFrameId)}
        /\ (Len(connections) = 0 \/ TotalLength(CurrentCircuit) = 0) =>
               (animationDots = <<>> /\ snakeSegment = Null)
        /\ (/\ TotalLength(CurrentCircuit) > 0
            /\ \A i \in 1..Len(connections) : ~Dangling(connections[i])) =>
               IF config.animationMode = "snake"
               THEN snakeSegment # Null /\ animationDots = <<>>
               ELSE animationDots # <<>> /\ snakeSegment = Null

\* A second frame has run on a playing animator whose connection list is
\* empty.
C13_Witness ==
    /\ Ticked
    /\ Len(connections) = 0
    /\ isPlaying
    /\ pendingFrames # {}
    /\ nextFrameId > 3

\* The distance along the circuit of the frame that has just run.
TickDistance ==
    DistanceAlong(now - Val(startTime),
                  Duration(TotalLength(CurrentCircuit), config),
                  TotalLength(CurrentCircuit))

\* C14: a connection one of whose shapes is missing has length 0 and no
\* point at any progress, forward or reversed; a frame over a circuit that
\* contains it leaves the animator playing, and a dot it emits is never on
\* the segment of such a connection.
C14_DanglingConnection ==
    /\ \A i \in 1..Len(connections) :
           Dangling(connections[i]) =>
               /\ calculatePathLength(connections[i], shapes) = 0
               /\ \A num \in 0..2, reversed \in BOOLEAN :
                      getPointOnPath(connections[i], shapes, num, 2, reversed) = Null
    /\ (Ticked /\ \E i \in 1..Len(connections) : Dangling(connections[i])) =>
           /\ isPlaying
           /\ animationDots # <<>> =>
                  LET segment == CurrentCircuit[SegmentIndexAt(CurrentCircuit, TickDistance)]
                  IN  ~(/\ segment.type = "connection"
                        /\ Dangling(Val(segment.connection)))

\* A frame has emitted a dot on a circuit one of whose connections dangles.
C14_Witness ==
    /\ Ticked
    /\ isPlaying
    /\ \E i \in 1..Len(connections) : Dangling(connections[i])
    /\ animationDots # <<>>
    /\ now > Val(startTime)

\* The straight-line distance between the two end points of a connection
\* both of whose shapes are in the shape list.
StraightDistance(connection) ==
    Distance(EndPoint(Val(FindShape(shapes, connection.fromShapeId)), connection.fromAnchor),
             EndPoint(Val(FindShape(shapes, connection.toShapeId)), connection.toAnchor))

\* C18: the length of every connection is at least 0; without a curve
\* offset and with both shapes present it is the straight-line distance
\* between the two anchor points; and the segment a connection gets in a
\* circuit has that length whether it is traversed forward or reversed.
C18_LengthNonNegativeStraight ==
    /\ \A i \in 1..Len(connections) :
           /\ calculatePathLength(connections[i], shapes) >= 0
           /\ (connections[i].curveOffset = Null /\ ~Dangling(connections[i])) =>
                  calculatePathLength(connections[i], shapes) = StraightDistance(connections[i])
    /\ \A r \in 1..Len(results) : \A k \in 1..Len(results[r]) :
           results[r][k].type = "connection" =>
               results[r][k].endDistance - results[r][k].startDistance =
                   calculatePathLength(Val(results[r][k].connection), shapes)

\* A circuit has been returned in which a straight connection of positive
\* length is traversed reversed and another one forward.
C18_Witness ==
    /\ results # <<>>
    /\ \E k \in 1..Len(results[1]) :
           /\ results[1][k].type = "connection"
           /\ results[1][k].reversed
           /\ Val(results[1][k].connection).curveOffset = Null
           /\ results[1][k].endDistance > results[1][k].startDistance
    /\ \E k \in 1..Len(results[1]) :
           /\ results[1][k].type = "connection"
           /\ ~results[1][k].reversed
           /\ results[1][k].endDistance > results[1][k].startDistance

\* C12: in dot mode, on a circuit of positive length, the dots published at
\* the elapsed time x + duration are the dots published at x (same point,
\* same connection id, same progress), for 0 <= x < duration.
C12_DotLoops ==
    (call.fn = "animate" /\ ret # Null) =>
        Val(ret).first = Val(ret).second

\* Both frames have been computed on the chain with a transition, at a time
\* after the start, and a dot was published.
C12_Witness ==
    /\ call.fn = "animate"
    /\ ret # Null
    /\ call.elapsed > 0
    /\ Len(connections) = 2
    /\ Val(ret).first # <<>>
    /\ Val(ret).second # <<>>

\* C15: getAnchorPosition takes the anchor modulo 1: the point returned for
\* an anchor outside [0, 1) is the point of the anchor wrapped into [0, 1),
\* for every shape kind.
C15_AnchorModuloOne ==
    (call.fn = "getAnchorPosition" /\ ret # Null) =>
        Val(ret) = getAnchorPositionAt(call.shape, call.h % 100)

\* The perimeter of a shape of each kind, as the sum of its edges (the
\* circumference 2*pi*radius for a circle).
Perimeter(shape) ==
    IF shape.type = "circle" THEN (6283 * OrDefault(shape.radius, 20)) \div 1000
    ELSE IF shape.type = "square"
         THEN (OrDefault(shape.width, 40) + OrDefault(shape.height, 40)) * 2
    ELSE 2 * SlantEdge(OrDefault(shape.width, 40), OrDefault(shape.height, 40))
         + OrDefault(shape.width, 40)

\* How far the point may move when the anchor advances by one hundredth:
\* a hundredth of the perimeter, and 3 pixels for the rounding to whole
\* pixels.
StepBound(shape) == Perimeter(shape) \div 100 + 3

\* C16: the perimeter parametrization is continuous and closes on itself:
\* for every shape kind, when the anchor advances by one hundredth (from
\* 0.99 back to 0 included) the point moves by no more than StepBound.
C16_PerimeterContinuous ==
    (call.fn = "getAnchorPosition" /\ call.h \in 0..99 /\ ret # Null) =>
        Distance(Val(ret), getAnchorPositionAt(call.shape, (call.h + 1) % 100))
            <= StepBound(call.shape)

\* The anchors of the grid {0, 0.1, ..., 0.9}, in tenths, nearest to the
\* anchor h hundredths, the grid being closed into a ring (0.97 is nearest
\* to 0); an anchor half-way between two has both.
NearestGrid(h) ==
    IF h % 10 = 5 THEN {h \div 10, (h \div 10 + 1) % 10}
    ELSE {((h + 5) \div 10) % 10}

\* C17: for every shape kind and every anchor a in [0, 1),
\* findNearestAnchor(shape, getAnchorPosition(shape, a)) is the grid anchor
\* nearest to a.
C17_NearestAnchorRoundTrip ==
    (call.fn = "findNearestAnchor" /\ ret # Null) =>
        Val(ret).position \in NearestGrid(call.h)

\* snakeLength * totalLength for the current scene and config, in pixels.
SnakeDistance == (config.snakeLength * TotalLength(CurrentCircuit)) \div 100

\* The point of the circuit at the tail of the snake whose head is at
\* call.head: the distance call.head - SnakeDistance taken into
\* [0, totalLength).
TailPoint ==
    Val(getPointOnCircuit(CurrentCircuit,
                          (call.head - SnakeDistance) % TotalLength(CurrentCircuit),
                          shapes))

\* The points array of the snake segment that was returned.
SnakePoints == Val(Val(ret)).points

\* C19: in snake mode with the head at distance d, 0 <= d < L, the snake
\* starts at the tail d - snakeLength*L taken into [0, L); it is sampled in
\* two sub-ranges (16 + 16 points instead of 31) exactly when
\* d < snakeLength*L.  On the straight circuit of length 300 with
\* snakeLength 0.2: d = 290 gives the tail 230 and one range, d = 10 gives
\* the tail 250 and two ranges.
C19_SnakeWraparound ==
    (call.fn = "generateSnakeSegment" /\ ret # Null) =>
        /\ Val(ret) # Null
        /\ SnakePoints[1] = TailPoint.x
        /\ SnakePoints[2] = TailPoint.y
        /\ Len(SnakePoints) = IF call.head < SnakeDistance THEN 64 ELSE 62
        /\ (TotalLength(CurrentCircuit) = 300 /\ config.snakeLength = 20) =>
               /\ call.head = 290 => (SnakePoints[1] = 230 /\ Len(SnakePoints) = 62)
               /\ call.head = 10 => (SnakePoints[1] = 250 /\ Len(SnakePoints) = 64)

\* The snake has been computed on the circuit of length 300 with snakeLength
\* 0.2 and the head at 10: its tail is at 250 and it wraps around.
C19_Witness ==
    /\ call.fn = "generateSnakeSegment"
    /\ ret # Null
    /\ TotalLength(CurrentCircuit) = 300
    /\ config.snakeLength = 20
    /\ call.head = 10
    /\ Len(SnakePoints) = 64

\* The shape a connection end names is in the shape list.
EndsInList(connection) ==
    /\ FindShape(shapes, connection.fromShapeId) # Null
    /\ FindShape(shapes, connection.toShapeId) # Null

\* C20: whatever sequence of addShape, addConnection, removeShape,
\* removeConnection, setTool and the four click handlers has run, every
\* connection references two shapes that are in the shape list; removeShape
\* leaves no connection that starts or ends at the removed shape, and
\* addConnection called with a shape that is not in the list adds nothing.
C20_ConnectionsReferenceShapes ==
    /\ [](\A i \in DOMAIN connections : EndsInList(connections[i]))
    /\ [](lastEdit.name = "removeShape"
            => \A i \in DOMAIN connections :
                   /\ connections[i].fromShapeId # lastEdit.id
                   /\ connections[i].toShapeId # lastEdit.id)
    /\ [][lastEdit'.name = "addConnection" /\ lastEdit'.missing
              => connections' = connections]_vars

\* removeShape has just removed a connection along with its shape.
C20_Witness ==
    /\ lastEdit.name = "removeShape"
    /\ Len(connections) < lastEdit.before

\* The squared distance from the point of the call to the perimeter point
\* of the grid anchor i tenths.
GridDistance(i) == SquaredDistance(getAnchorPosition(call.shape, i), call.point)

\* C21: findNearestAnchor returns one of the grid anchors 0, 0.1, ..., 0.9,
\* one whose perimeter point is at minimal distance from the given point,
\* and of several at that distance the smallest.
C21_NearestAnchorFirstMinimum ==
    (call.fn = "findNearestAnchor of a point" /\ ret # Null) =>
        /\ Val(ret).position \in 0..9
        /\ \A i \in 0..9 :
               /\ GridDistance(Val(ret).position) <= GridDistance(i)
               /\ GridDistance(i) = GridDistance(Val(ret).position)
                      => Val(ret).position <= i

\* findNearestAnchor has returned for a point that has two grid anchors at
\* the minimal distance.
C21_Witness ==
    /\ call.fn = "findNearestAnchor of a point"
    /\ ret # Null
    /\ \E i \in 0..9 :
           /\ i # Val(ret).position
           /\ GridDistance(i) = GridDistance(Val(ret).position)

\* The connection at index i was unused and touched the current shape when
\* the last pass began.
Continues(i) ==
    /\ connections[i].id \notin lastPass.prevUsed
    /\ \/ connections[i].fromShapeId = lastPass.prevShapeId
       \/ connections[i].toShapeId = lastPass.prevShapeId

\* The end of a connection the walk leaves it at.
OtherEnd(connection, reversed) ==
    IF reversed
    THEN [shapeId |-> connection.fromShapeId, anchor |-> connection.fromAnchor]
    ELSE [shapeId |-> connection.toShapeId, anchor |-> connection.toAnchor]

\* C22: a pass of the walk continues exactly when an unused connection
\* touches the current shape; the connection it appends is the first such
\* connection in list order, reversed exactly when its fromShapeId is not the
\* current shape, and the current shape and exit anchor become the shape and
\* anchor of that connection's other end.
C22_FirstMatchContinues ==
    /\ lastPass.kind = "continue" =>
           \E i \in 1..Len(connections) :
               /\ Continues(i)
               /\ \A j \in 1..(i - 1) : ~Continues(j)
               /\ segments[Len(segments)].type = "connection"
               /\ segments[Len(segments)].connection = Some(connections[i])
               /\ segments[Len(segments)].reversed
                      = (connections[i].fromShapeId # lastPass.prevShapeId)
               /\ currentShapeId
                      = OtherEnd(connections[i], segments[Len(segments)].reversed).shapeId
               /\ currentExitAnchor
                      = Some(Val(OtherEnd(connections[i],
                                          segments[Len(segments)].reversed).anchor).position)
    /\ lastPass.kind \in {"fresh", "break"} =>
           \A i \in 1..Len(connections) : ~Continues(i)

\* A pass has just continued through a connection entered at its toShapeId
\* although a later connection of the list could have continued as well.
C22_Witness ==
    /\ lastPass.kind = "continue"
    /\ segments[Len(segments)].reversed
    /\ \E i \in 1..Len(connections), j \in 1..Len(connections) :
           /\ i < j
           /\ segments[Len(segments)].connection = Some(connections[i])
           /\ connections[j].id # connections[i].id
           /\ Continues(i)
           /\ Continues(j)

\* The last segment starts a fresh sub-path: it is a connection segment
\* directly after a connection segment, and its entry shape is not the shape
\* that segment was left at.
FreshStart ==
    /\ segments[Len(segments)].type = "connection"
    /\ segments[Len(segments) - 1].type = "connection"
    /\ SegEntry(segments[Len(segments)]).shapeId
           # SegExit(segments[Len(segments) - 1]).shapeId

\* An unused connection shared a shape with a connection already placed
\* when the last pass began.
TouchesPlaced ==
    \E i \in 1..Len(connections), j \in 1..Len(connections) :
        /\ connections[i].id \notin lastPass.prevUsed
        /\ connections[j].id \in lastPass.prevUsed
        /\ ~SharesNoShape(connections[i], connections[j])

\* C23 as stated: a fresh sub-path is started only when no unused
\* connection shares a shape with any connection already placed.
C23_FreshOnlyWhenDisconnected ==
    (lastPass.kind \in {"continue", "fresh"} /\ FreshStart) => ~TouchesPlaced

\* C23, amended: a pass starts a fresh sub-path exactly when no unused
\* connection has the current shape, the shape the last placed connection
\* was left at, as its fromShapeId or toShapeId.
C23_FreshWhenNothingContinues ==
    lastPass.kind \in {"continue", "fresh"} =>
        /\ FreshStart <=> (\A i \in 1..Len(connections) : ~Continues(i))
        /\ FreshStart <=> (lastPass.kind = "fresh")

\* A fresh sub-path has just been started with a connection that shares a
\* shape with a connection placed before it.
C23_Witness ==
    /\ lastPass.kind = "fresh"
    /\ FreshStart
    /\ TouchesPlaced
    /\ \E i \in 1..Len(connections) :
           /\ segments[Len(segments)].connection = Some(connections[i])
           /\ ~SharesNoShape(connections[i], connections[1])

\* The indices of the connection segments of a circuit.
ConnectionIndices(r) == {j \in 1..Len(r) : r[j].type = "connection"}

\* The first and the last connection segment of a circuit that has one.
FirstConnection(r) ==
    r[CHOOSE j \in ConnectionIndices(r) : \A k \in ConnectionIndices(r) : j <= k]

LastConnection(r) ==
    r[CHOOSE j \in ConnectionIndices(r) : \A k \in ConnectionIndices(r) : j >= k]

\* The circuit loops through one shape at two different anchors: its last
\* connection segment is left at the shape its first one is entered at.
LoopsAtDifferentAnchors(r) ==
    /\ ConnectionIndices(r) # {}
    /\ SegExit(LastConnection(r)).shapeId = SegEntry(FirstConnection(r)).shapeId
    /\ FindShape(shapes, SegExit(LastConnection(r)).shapeId) # Null
    /\ NeedsTransition(SegExit(LastConnection(r)).anchor, SegEntry(FirstConnection(r)).anchor)

\* The segment is the transition that closes the loop of the circuit.
ClosesLoop(r, seg) ==
    /\ seg.type = "transition"
    /\ seg.shape = FindShape(shapes, SegExit(LastConnection(r)).shapeId)
    /\ seg.fromAnchor = SegExit(LastConnection(r)).anchor
    /\ seg.toAnchor = SegEntry(FirstConnection(r)).anchor

\* C24: a circuit whose last connection segment is left at the shape where
\* its first connection segment is entered, at a different anchor, has a
\* transition segment on that shape, from the one anchor to the other, after
\* its last or before its first connection segment.
C24_LoopPointTransition ==
    \A k \in 1..Len(results) :
        LoopsAtDifferentAnchors(results[k]) =>
            \/ ClosesLoop(results[k], results[k][Len(results[k])])
            \/ ClosesLoop(results[k], results[k][1])

\* The last operation started a play session: start(), toggle() or the
\* watcher found the animator stopped and left it playing.
Started ==
    /\ lastOp.name \in {"start", "toggle", "watch"}
    /\ ~lastOp.wasPlaying
    /\ isPlaying

\* What a frame publishes with the marker at circuit distance 0.
PayloadAtZero ==
    IF Len(connections) = 0 THEN EmptyPayload
    ELSE IF TotalLength(CurrentCircuit) = 0 THEN EmptyPayload
    ELSE ModePayload(CurrentCircuit, TotalLength(CurrentCircuit), 0,
                     connections, shapes, config)

\* C25: the tick that every start runs latches the start time to the current
\* time and places the marker at circuit distance 0, whatever an earlier
\* session left behind; while playing the start time is latched, and no
\* later tick changes it.
C25_StartLatchesNow ==
    /\ [](Started =>
              /\ startTime = Some(now)
              /\ animationDots = PayloadAtZero.animationDots
              /\ snakeSegment = PayloadAtZero.snakeSegment)
    /\ [](isPlaying => startTime # Null)
    /\ [][(lastOp'.name = "tick" /\ isPlaying) => startTime' = startTime]_vars

\* A session has just been started, after an earlier one had run, at a time
\* later than 0, and it shows the dot at the start of the circuit.
C25_Witness ==
    /\ Started
    /\ now > 0
    /\ nextFrameId >= 3
    /\ animationDots # <<>>

\* The segment contains the distance d: startDistance <= d < endDistance.
Contains(segment, d) == segment.startDistance <= d /\ d < segment.endDistance

\* The indices of the segments of the current circuit that contain d.
Containing(d) ==
    {i \in 1..Len(CurrentCircuit) : Contains(CurrentCircuit[i], d)}

\* C26: for a distance d with 0 <= d < totalLength the segment used to place
\* the dot is the one segment that contains d, which is not of length 0; the
\* last segment is used without containing d only when no segment contains
\* d; the local progress is within [0, 1].
C26_SegmentLookup ==
    (call.fn = "segment lookup" /\ ret # Null) =>
        /\ call.distance < TotalLength(CurrentCircuit) =>
               /\ Containing(call.distance) = {Val(ret).index}
               /\ Val(ret).segment.endDistance > Val(ret).segment.startDistance
        /\ Val(ret).index \notin Containing(call.distance) =>
               /\ Containing(call.distance) = {}
               /\ Val(ret).index = Len(CurrentCircuit)
        /\ Val(ret).progress.num >= 0
        /\ Val(ret).progress.num <= Val(ret).progress.den

\* The segment has been looked up for the distance at which a zero-length
\* segment starts and ends, in a circuit that goes on after it.
C26_Witness ==
    /\ call.fn = "segment lookup"
    /\ ret # Null
    /\ call.distance < TotalLength(CurrentCircuit)
    /\ \E i \in 1..Len(CurrentCircuit) :
           /\ CurrentCircuit[i].startDistance = call.distance
           /\ CurrentCircuit[i].endDistance = call.distance
           /\ Val(ret).index > i

\* C27: every pass of the outer loop of buildCircuit marks exactly one more
\* connection as used or leaves the loop, and no more ids are ever marked
\* than the list has connections, on lists with repeated ids, self-loops and
\* dangling connections as on any other: the loop is left after at most as
\* many passes as the list has connections.
C27_WalkTerminates ==
    /\ [][pc = "loop" =>
              \/ pc' = "idle"
              \/ /\ Cardinality(usedConnections') = Cardinality(usedConnections) + 1
                 /\ usedConnections \subseteq usedConnections']_vars
    /\ [](Cardinality(usedConnections) <= Len(connections))
    /\ [](pc = "loop" => Len(segments) < 2 * Len(connections))

\* The walk has just left its loop by the break, with unused list entries
\* left over, on a list that repeats an id and holds a self-loop or a
\* dangling connection.
C27_Witness ==
    /\ lastPass.kind = "break"
    /\ ~DistinctIds(connections)
    /\ \E i \in 1..Len(connections) :
           \/ connections[i].fromShapeId = connections[i].toShapeId
           \/ Dangling(connections[i])

\* The point of an end of the connection of the call: its fromAnchor
\* point, or its toAnchor point.
AnchorPointOf(shapeId, anchor) ==
    Some(EndPoint(Val(FindShape(shapes, shapeId)), anchor))

\* C28: on a connection with both shapes present, the point at parameter t
\* with reversed = true is the point at 1 - t with reversed = false, straight
\* or curved; at t = 0 it is the connection's toAnchor point and at t = 1
\* its fromAnchor point.
C28_ReversedSamePath ==
    (call.fn = "getPointOnPath" /\ ret # Null /\ call.reversed) =>
        /\ Val(ret) # Null
        /\ Val(ret) = getPointOnPath(call.connection, shapes, 20 - call.num, 20, FALSE)
        /\ call.num = 0 =>
               Val(ret) = AnchorPointOf(call.connection.toShapeId, call.connection.toAnchor)
        /\ call.num = 20 =>
               Val(ret) = AnchorPointOf(call.connection.fromShapeId, call.connection.fromAnchor)

\* A curved connection has been evaluated reversed at a parameter where
\* the two directions give different points.
C28_Witness ==
    /\ call.fn = "getPointOnPath"
    /\ ret # Null
    /\ call.reversed
    /\ call.connection.curveOffset # Null
    /\ Val(ret) # getPointOnPath(call.connection, shapes, call.num, 20, FALSE)

\* C29: whatever start(), stop(), toggle(), changes of config.enabled, the
\* teardown and frame ticks have run, at most one frame callback is pending:
\* while playing exactly one, the one animationFrameId names, and while not
\* playing none.
C29_OneFramePending ==
    /\ Cardinality(pendingFrames) <= 1
    /\ isPlaying => (animationFrameId # Null /\ pendingFrames = {Val(animationFrameId)})
    /\ ~isPlaying => pendingFrames = {}

\* A tick has just run in a session that was started after an earlier one
\* had been stopped, and the frame it requested is the only one pending.
C29_Witness ==
    /\ lastOp.name = "tick"
    /\ lastOp.wasPlaying
    /\ isPlaying
    /\ startTime # Null
    /\ Val(startTime) > 0
    /\ pendingFrames = {Val(animationFrameId)}
    /\ Val(animationFrameId) >= 3

\* C30: in every reachable state of the animator the dot list holds at most
\* one dot, and it is empty whenever the snake segment is not null, also
\* when the mode is switched between two ticks and when the animator is
\* stopped and started again.
C30_PayloadsExclusive ==
    /\ Len(animationDots) <= 1
    /\ snakeSegment # Null => animationDots = <<>>

\* The mode has been switched between two ticks of a running session: a
\* payload of the other mode is still published while the next tick is
\* pending.
C30_Witness ==
    /\ isPlaying
    /\ pendingFrames # {}
    /\ lastOp.name = "env"
    /\ \/ config.animationMode = "snake" /\ Len(animationDots) = 1
       \/ config.animationMode = "dot" /\ snakeSegment # Null

====
